---------------------------- MODULE Spec2Model ----------------------------
(***************************************************************************)
(* Record linkage and merge core of the NYC agency-name pipeline.          *)
(*                                                                         *)
(* The module holds one state machine per program of the repository:       *)
(*   SpecLedger   - Match Ledger insertions (generate_matches.save_matches,*)
(*                  add_manual_matches)                                    *)
(*   SpecApply    - apply_matches.py (apply_matches, merge_records)        *)
(*   SpecVerified - apply_verified_matches.py (process_verified_matches)   *)
(*   SpecManual   - phase2.6_manual_merge.py (apply_manual_merges)         *)
(*   SpecMain     - main.py (main: final_cleanup, apply_matches, conflict  *)
(*                  resolution, the writes of the output file)             *)
(*   SpecGenCall  - generate_matches.py (generate_potential_matches)       *)
(*   SpecGenMain  - generate_matches.py (main, run repeatedly)             *)
(* The programs are single-threaded batch scripts; a specification runs    *)
(* one of them and leaves the variables of the others untouched.           *)
(*                                                                         *)
(* Text values whose characters the code inspects (lower(), strip(),       *)
(* split(";"), substring tests) are sequences of one-character strings.    *)
(* Values the code only compares for equality (RecordIDs, labels, ledger   *)
(* names in drop_duplicates) are TLA+ strings.  Scores are in tenths of a  *)
(* point (970 is 97.0).                                                    *)
(***************************************************************************)
EXTENDS Integers, Sequences, FiniteSets, TLC

VARIABLES
    ledger,        \* consolidated_matches.csv: sequence of ledger entries
    ledgerExists,  \* whether consolidated_matches.csv exists on disk
    ledgerOp,      \* the last ledger operation that ran
    nOps,          \* number of ledger operations run so far
    result_df,     \* apply_matches: the working table, a sequence of rows
    matches,       \* apply_matches: the ledger it iterates over
    mi,            \* apply_matches: position of the next ledger entry
    apply_pc,      \* apply_matches: "idle", "loop" or "done"
    run,           \* apply_matches: 1 for the first run, 2 for the re-run
    out1,          \* apply_matches: the table the first run wrote
    applied,       \* apply_matches: the merges applied in this run (history)
    verified_df,   \* process_verified_matches: the table df, a sequence of rows
    matches_df,    \* process_verified_matches: the ledger, sorted by Score
    vpc,           \* process_verified_matches: "idle", "start", "batch", "done"
    start_idx,     \* process_verified_matches: first entry of the batch (1-based)
    k,             \* process_verified_matches: next entry of the batch (1-based)
    batch,         \* indices_to_drop, batch_updates, batch_processed_ids
    stats,         \* process_verified_matches: the stats dictionary
    vapplied,      \* process_verified_matches: merges queued so far (history)
    manual_df,     \* apply_manual_merges: result_df, a sequence of rows
    overrides_df,  \* apply_manual_merges: the override rows
    oi,            \* apply_manual_merges: position of the next override row
    manual_stats,  \* apply_manual_merges: successful_merges, failed_merges
    mapplied,      \* apply_manual_merges: the merges applied (history)
    main_pc,       \* main.py main: position of the run
    final_path,    \* main.py main: the file final_deduplicated_dataset.csv
    gen_names,     \* generate_matches: df['NameNormalized'].unique()
    find_matches,  \* generate_matches: the matcher, scores in hundredths
    existing_pairs, \* generate_potential_matches: its existing_pairs argument
    emitted,       \* generate_potential_matches: the list it returned
    gen_pc,        \* generate_potential_matches: "idle", "ready" or "returned"
    id_input,      \* record ids: the RecordID column handed to the function
    id_df,         \* record ids: the RecordID column of the table it returned
    id_pc,         \* record ids: "idle", "ready", "ensured" or "assigned"
    cr_row,  \* resolve_conflict: the row, a function from column names to cells
    cr_candidate_cols,  \* resolve_conflict: its candidate_cols argument
    cr_priority_order,  \* resolve_conflict: its priority_order argument
    cr_result,  \* resolve_conflict: the [status, suggested] it returned
    cr_pc,  \* resolve_conflict: "idle", "ready" or "returned"
    sn_name,  \* standardize_name: the argument, then the value returned
    sn_prev,  \* standardize_name: the argument of the last call
    sn_calls,  \* standardize_name: number of calls made so far
    fm_matches_df,  \* fix_match_ids: the ledger handed to it
    fm_name_to_id,  \* fix_match_ids: the dict, a sequence of <<key, RecordID>> in insertion order
    fm_result,  \* fix_match_ids: the ledger it returned
    fm_pc,  \* fix_match_ids: "idle", "ready" or "returned"
    ov_input,  \* phase2.6 main: the dataset as loaded
    ov_df,  \* phase2.6 main: the dataset being edited
    ov_overrides,  \* phase2.6 main: rows of the manual overrides file
    ov_pc,  \* phase2.6 main: next step
    ov_inserted,  \* override rows add_new_records created a record from
    ov_updated  \* override rows apply_single_record_updates counted as applied

ledgerVars == <<ledger, ledgerExists, ledgerOp, nOps>>
applyVars == <<result_df, matches, mi, apply_pc, run, out1, applied>>
verifiedVars == <<verified_df, matches_df, vpc, start_idx, k, batch, stats, vapplied>>
manualVars == <<manual_df, overrides_df, oi, manual_stats, mapplied>>
mainVars == <<main_pc, final_path>>
genVars == <<gen_names, find_matches, existing_pairs, emitted, gen_pc>>
idVars == <<id_input, id_df, id_pc>>
resolveVars == <<cr_row, cr_candidate_cols, cr_priority_order, cr_result, cr_pc>>
nameVars == <<sn_name, sn_prev, sn_calls>>
fixVars == <<fm_matches_df, fm_name_to_id, fm_result, fm_pc>>
overrideVars == <<ov_input, ov_df, ov_overrides, ov_pc, ov_inserted, ov_updated>>

vars == <<ledger, ledgerExists, ledgerOp, nOps,
          result_df, matches, mi, apply_pc, run, out1, applied,
          verified_df, matches_df, vpc, start_idx, k, batch, stats, vapplied,
          manual_df, overrides_df, oi, manual_stats, mapplied,
          main_pc, final_path,
          gen_names, find_matches, existing_pairs, emitted, gen_pc,
          id_input, id_df, id_pc,
          cr_row, cr_candidate_cols, cr_priority_order, cr_result, cr_pc,
          sn_name, sn_prev, sn_calls,
          fm_matches_df, fm_name_to_id, fm_result, fm_pc,
          ov_input, ov_df, ov_overrides, ov_pc, ov_inserted, ov_updated>>

IdleLedger ==
    /\ ledger = <<>>
    /\ ledgerExists = FALSE
    /\ ledgerOp = "none"
    /\ nOps = 0

IdleApply ==
    /\ result_df = <<>>
    /\ matches = <<>>
    /\ mi = 0
    /\ apply_pc = "idle"
    /\ run = 0
    /\ out1 = <<>>
    /\ applied = <<>>

EmptyBatch ==
    [indices_to_drop |-> <<>>, batch_updates |-> <<>>, batch_processed_ids |-> {}]

NoStats ==
    [total_matches |-> 0, matches_applied |-> 0, skipped_matches |-> 0,
     processed_ids |-> {}, original_records |-> 0, final_records |-> 0]

IdleVerified ==
    /\ verified_df = <<>>
    /\ matches_df = <<>>
    /\ vpc = "idle"
    /\ start_idx = 0
    /\ k = 0
    /\ batch = EmptyBatch
    /\ stats = NoStats
    /\ vapplied = <<>>

IdleManual ==
    /\ manual_df = <<>>
    /\ overrides_df = <<>>
    /\ oi = 0
    /\ manual_stats = [successful_merges |-> 0, failed_merges |-> 0]
    /\ mapplied = <<>>

\* no file at final_path
NoFile == [exists |-> FALSE, table |-> <<>>, matched |-> FALSE, resolved |-> FALSE]

IdleMain ==
    /\ main_pc = "idle"
    /\ final_path = NoFile

IdleGen ==
    /\ gen_names = <<>>
    /\ find_matches = <<>>
    /\ existing_pairs = {}
    /\ emitted = <<>>
    /\ gen_pc = "idle"

IdleIds ==
    /\ id_input = <<>>
    /\ id_df = <<>>
    /\ id_pc = "idle"

IdleResolve ==
    /\ cr_row = <<>>
    /\ cr_candidate_cols = <<>>
    /\ cr_priority_order = <<>>
    /\ cr_result = <<>>
    /\ cr_pc = "idle"

IdleName ==
    /\ sn_name = <<>>
    /\ sn_prev = <<>>
    /\ sn_calls = 0

IdleFix ==
    /\ fm_matches_df = <<>>
    /\ fm_name_to_id = <<>>
    /\ fm_result = <<>>
    /\ fm_pc = "idle"

IdleOverride ==
    /\ ov_input = <<>>
    /\ ov_df = <<>>
    /\ ov_overrides = <<>>
    /\ ov_pc = "idle"
    /\ ov_inserted = {}
    /\ ov_updated = {}

-----------------------------------------------------------------------------
(* Generic sequence helpers *)

Range(s) == {s[i] : i \in DOMAIN s}

RECURSIVE SeqsUpTo(_, _)
\* all sequences over S of length 0..n
SeqsUpTo(S, n) ==
    IF n = 0 THEN {<<>>}
    ELSE LET shorter == SeqsUpTo(S, n - 1)
         IN shorter \cup {Append(s, x) : s \in shorter, x \in S}

-----------------------------------------------------------------------------
(* Match Ledger: generate_matches.save_matches and add_manual_matches *)

MaxLedgerOps == 2     \* ledger operations per behaviour
MaxNewMatches == 2    \* length of the list handed to save_matches
MaxInitLedger == 2    \* entries of the ledger file before the first operation

NoneID == "NaN"       \* a missing SourceID / TargetID cell

Entry(src, tgt, score, label, sid, tid) ==
    [Source |-> src, Target |-> tgt, Score |-> score, Label |-> label,
     SourceID |-> sid, TargetID |-> tid]

\* add_manual_matches.py lines 19-116: the hard-coded list
ManualEntry(src, tgt) == Entry(src, tgt, 1000, "Match", NoneID, NoneID)

new_matches == <<
    ManualEntry("transportation department", "department transportation"),
    ManualEntry("transitional finance authority",
                "transitional finance authority new york city"),
    ManualEntry("tax commission", "tax commission new york city"),
    ManualEntry("tax appeals tribunal", "tax appeals tribunal new york city"),
    ManualEntry("public schools new york city", "education department"),
    ManualEntry("education department", "department education"),
    ManualEntry("police department new york city", "police department"),
    ManualEntry("new york city sheriff", "city sheriff"),
    ManualEntry("fire department", "fire department new york city"),
    ManualEntry("department social services",
                "department social services department homeless services"),
    ManualEntry("department social services",
                "department social services human resources administration"),
    ManualEntry("city council", "city council new york") >>

\* DataFrame.drop_duplicates(subset=['Source', 'Target'], keep='first'):
\* rows are compared on the ORDERED pair of the two columns.
DropDuplicates(s) ==
    LET F[i \in 0..Len(s)] ==
            IF i = 0 THEN <<>>
            ELSE IF \E j \in 1..(i - 1) :
                        /\ s[j].Source = s[i].Source
                        /\ s[j].Target = s[i].Target
                 THEN F[i - 1]
                 ELSE Append(F[i - 1], s[i])
    IN F[Len(s)]

\* DataFrame.sort_values('Score', ascending=False); rows of equal Score keep
\* their relative order.
RECURSIVE InsertByScore(_, _)
InsertByScore(e, s) ==
    IF s = <<>> THEN <<e>>
    ELSE IF Head(s).Score <= e.Score THEN <<e>> \o s
    ELSE <<Head(s)>> \o InsertByScore(e, Tail(s))

RECURSIVE SortByScoreDesc(_)
SortByScoreDesc(s) ==
    IF s = <<>> THEN <<>>
    ELSE InsertByScore(Head(s), SortByScoreDesc(Tail(s)))

\* the unordered pair of names of a ledger entry
NamePair(e) == {e.Source, e.Target}

HasDuplicatePair(s) ==
    \E i, j \in DOMAIN s : i # j /\ NamePair(s[i]) = NamePair(s[j])

\* Names the candidate generator can emit in this model (NameNormalized values)
GenNames == {"department transportation", "transportation department",
             "tax commission"}

GenScores == {850, 970}

\* generate_potential_matches lines 95-103: the shape of an emitted match
GeneratedEntries ==
    {Entry(p[1], p[2], sc, IF sc >= 950 THEN "Match" ELSE "",
           "REC_000001", "REC_000002") :
        p \in {q \in GenNames \X GenNames : q[1] # q[2]}, sc \in GenScores}

\* lists save_matches can be handed: no unordered pair twice (lines 60-61
\* enumerate each pair of distinct names once)
MatchLists ==
    {m \in SeqsUpTo(GeneratedEntries, MaxNewMatches) : ~HasDuplicatePair(m)}

InitialLedgers ==
    {l \in SeqsUpTo(GeneratedEntries, MaxInitLedger) : ~HasDuplicatePair(l)}

InitLedger ==
    /\ ledgerExists \in BOOLEAN
    /\ ledger \in IF ledgerExists THEN InitialLedgers ELSE {<<>>}
    /\ ledgerOp = "none"
    /\ nOps = 0
    /\ IdleApply
    /\ IdleVerified
    /\ IdleManual
    /\ IdleMain
    /\ IdleIds
    /\ IdleGen
    /\ IdleResolve
    /\ IdleName
    /\ IdleFix
    /\ IdleOverride

\* save_matches with a non-empty list, ledger file present (lines 119-139)
SaveMatchesExisting(ms) ==
    /\ nOps < MaxLedgerOps
    /\ ms # <<>>
    /\ ledgerExists
    /\ ledger' = SortByScoreDesc(DropDuplicates(ledger \o SortByScoreDesc(ms)))
    /\ ledgerOp' = "save_matches"
    /\ nOps' = nOps + 1
    /\ UNCHANGED <<overrideVars, fixVars, nameVars, resolveVars, idVars, genVars, mainVars, ledgerExists, applyVars, verifiedVars, manualVars>>

\* save_matches with a non-empty list, no ledger file yet (lines 140-143)
SaveMatchesNew(ms) ==
    /\ nOps < MaxLedgerOps
    /\ ms # <<>>
    /\ ~ledgerExists
    /\ ledger' = SortByScoreDesc(ms)
    /\ ledgerExists' = TRUE
    /\ ledgerOp' = "save_matches"
    /\ nOps' = nOps + 1
    /\ UNCHANGED <<overrideVars, fixVars, nameVars, resolveVars, idVars, genVars, mainVars, applyVars, verifiedVars, manualVars>>

\* save_matches with an empty list: pd.DataFrame([]) has no 'Score' column,
\* sort_values raises KeyError, which lines 145-147 log and re-raise
SaveMatchesRaise ==
    /\ nOps < MaxLedgerOps
    /\ ledgerOp' = "save_matches_raised"
    /\ nOps' = nOps + 1
    /\ UNCHANGED <<overrideVars, fixVars, nameVars, resolveVars, idVars, genVars, mainVars, ledger, ledgerExists, applyVars, verifiedVars, manualVars>>

\* add_manual_matches (lines 120-148); a missing file is an empty ledger
AddManualMatches ==
    /\ nOps < MaxLedgerOps
    /\ ledger' = DropDuplicates(ledger \o new_matches)
    /\ ledgerExists' = TRUE
    /\ ledgerOp' = "add_manual_matches"
    /\ nOps' = nOps + 1
    /\ UNCHANGED <<overrideVars, fixVars, nameVars, resolveVars, idVars, genVars, mainVars, applyVars, verifiedVars, manualVars>>

NextLedger ==
    \/ \E m \in MatchLists : SaveMatchesExisting(m)
    \/ \E m \in MatchLists : SaveMatchesNew(m)
    \/ SaveMatchesRaise
    \/ AddManualMatches

SpecLedger == InitLedger /\ [][NextLedger]_vars

-----------------------------------------------------------------------------
(* Text: str.lower(), str.strip(), str.split(";"), "; ".join, substring *)

NaN == <<"NaN">>      \* a null cell (float nan / None) of a text column

isna(v) == v = NaN
notna(v) == v # NaN

UpperChars == <<"A", "B", "C", "D", "E", "F", "G", "H", "I", "J", "K", "L", "M",
                "N", "O", "P", "Q", "R", "S", "T", "U", "V", "W", "X", "Y", "Z">>
LowerChars == <<"a", "b", "c", "d", "e", "f", "g", "h", "i", "j", "k", "l", "m",
                "n", "o", "p", "q", "r", "s", "t", "u", "v", "w", "x", "y", "z">>

\* str.lower() on one character, tabulated once
LowerTable ==
    [c \in Range(UpperChars) |->
        LowerChars[CHOOSE i \in DOMAIN UpperChars : UpperChars[i] = c]]

LowerChar(c) == IF c \in DOMAIN LowerTable THEN LowerTable[c] ELSE c

lower(s) == [i \in DOMAIN s |-> LowerChar(s[i])]

RECURSIVE lstrip(_)
lstrip(s) == IF s # <<>> /\ Head(s) = " " THEN lstrip(Tail(s)) ELSE s

RECURSIVE rstrip(_)
rstrip(s) ==
    IF s # <<>> /\ s[Len(s)] = " " THEN rstrip(SubSeq(s, 1, Len(s) - 1)) ELSE s

strip(s) == rstrip(lstrip(s))

\* sub in s
Contains(s, sub) ==
    \E i \in 0..(Len(s) - Len(sub)) : SubSeq(s, i + 1, i + Len(sub)) = sub

\* s.split(";"): the pieces between semicolons, empty pieces included
RECURSIVE split(_, _)
split(s, acc) ==
    IF s = <<>> THEN <<acc>>
    ELSE IF Head(s) = ";" THEN <<acc>> \o split(Tail(s), <<>>)
    ELSE split(Tail(s), Append(acc, Head(s)))

\* "; ".join(parts)
RECURSIVE join(_)
join(parts) ==
    IF parts = <<>> THEN <<>>
    ELSE IF Len(parts) = 1 THEN parts[1]
    ELSE parts[1] \o <<";", " ">> \o join(Tail(parts))

\* [part.strip() for part in str(v).split(";") if part.strip()]
RECURSIVE StrippedParts(_)
StrippedParts(pieces) ==
    IF pieces = <<>> THEN <<>>
    ELSE LET p == strip(Head(pieces))
         IN (IF p = <<>> THEN <<>> ELSE <<p>>) \o StrippedParts(Tail(pieces))

-----------------------------------------------------------------------------
(* apply_matches.py: rows, is_library, get_preferred_record, merge_records *)

\* A merged_from cell: fmt "nan" is a null cell, "json" a JSON list of ids
\* (what json.dumps writes), "repr" a Python list repr such as "['REC_1']"
\* (what str(list) writes, data_merging.py line 312), which json.loads rejects.
MergedFrom(fmt, ids) == [fmt |-> fmt, ids |-> ids]

Row(idx, rid, name, ops, hoo, src, url, mf, note) ==
    [index |-> idx, RecordID |-> rid, Name |-> name, NameOps |-> ops,
     NameHOO |-> hoo, source |-> src, URL |-> url, merged_from |-> mf,
     merge_note |-> note, processed |-> FALSE]

\* record.get("Name") or "", then "library" in name_field.lower()
is_library(record) ==
    Contains(lower(IF record.Name = <<>> THEN <<>> ELSE record.Name),
             <<"l", "i", "b", "r", "a", "r", "y">>)

S_export == <<"n", "y", "c", "_", "a", "g", "e", "n", "c", "i", "e", "s", "_",
              "e", "x", "p", "o", "r", "t">>
S_ops == <<"o", "p", "s">>
S_nyc_gov == <<"n", "y", "c", "_", "g", "o", "v">>

\* priority.get(str(source).strip().lower(), 0), "" for a null source
SourcePriority(src) ==
    LET key == IF notna(src) THEN lower(strip(src)) ELSE <<>>
    IN IF key = S_export THEN 3
       ELSE IF key = S_ops THEN 2
       ELSE IF key = S_nyc_gov THEN 1
       ELSE 0

\* TRUE when rec1 is the preferred record, FALSE when rec2 is
get_preferred_record(rec1, rec2) ==
    SourcePriority(rec1.source) >= SourcePriority(rec2.source)

\* lines 45-51: json.loads of the primary's merged_from, [] when it is null
\* or does not parse
LoadMergedFrom(cell) == IF cell.fmt = "json" THEN cell.ids ELSE <<>>

\* lines 54-56: add an id unless it is already in the list
AddId(ids, rec_id) ==
    IF \E i \in DOMAIN ids : ids[i] = rec_id THEN ids ELSE Append(ids, rec_id)

\* a merge that records the secondary's id only
RecordsAdded_SecondaryOnly(primary, secondary) == <<secondary.RecordID>>

\* line 53: "for rec in [primary, secondary]", the ids of both records
RecordsAdded(primary, secondary) == <<primary.RecordID, secondary.RecordID>>

\* lines 53-56: the loop over the ids to add
RECURSIVE AddIds(_, _)
AddIds(ids, rec_ids) ==
    IF rec_ids = <<>> THEN ids
    ELSE AddIds(AddId(ids, Head(rec_ids)), Tail(rec_ids))

\* lines 73-76: parts of the secondary not already present, case-insensitive
RECURSIVE CombineParts(_, _)
CombineParts(combined, parts) ==
    IF parts = <<>> THEN combined
    ELSE IF \E i \in DOMAIN combined : lower(combined[i]) = lower(Head(parts))
         THEN CombineParts(combined, Tail(parts))
         ELSE CombineParts(Append(combined, Head(parts)), Tail(parts))

\* lines 63-81: a column whose name starts with "Name -"
MergeNameColumn(val_primary, val_secondary) ==
    IF notna(val_primary) /\ notna(val_secondary)
    THEN IF lower(strip(val_primary)) # lower(strip(val_secondary))
         THEN join(CombineParts(StrippedParts(split(val_primary, <<>>)),
                                StrippedParts(split(val_secondary, <<>>))))
         ELSE val_primary
    ELSE IF isna(val_primary) /\ notna(val_secondary) THEN val_secondary
    ELSE val_primary

\* lines 85-88: any other column
MergeOtherColumn(val_primary, val_secondary) ==
    IF isna(val_primary) /\ notna(val_secondary) THEN val_secondary
    ELSE val_primary

\* lines 89-99: the note "Merged records: <ids>" after the notes of both sides
Note(kind, ids, score, conflicts) ==
    [kind |-> kind, ids |-> ids, score |-> score, conflicts |-> conflicts]

MergeNote(ids) == Note("merged", ids, 0, {})

merge_records(primary, secondary) ==
    LET merged_from ==
            AddIds(LoadMergedFrom(primary.merged_from),
                   RecordsAdded(primary, secondary))
    IN [primary EXCEPT
            !.Name = MergeOtherColumn(primary.Name, secondary.Name),
            !.NameOps = MergeNameColumn(primary.NameOps, secondary.NameOps),
            !.NameHOO = MergeNameColumn(primary.NameHOO, secondary.NameHOO),
            !.source = MergeOtherColumn(primary.source, secondary.source),
            !.URL = MergeOtherColumn(primary.URL, secondary.URL),
            !.merged_from = MergedFrom("json", merged_from),
            !.merge_note = primary.merge_note \o secondary.merge_note
                           \o <<MergeNote(merged_from)>>]

-----------------------------------------------------------------------------
(* apply_matches.py: the loop of apply_matches over the ledger *)

MaxRows == 3          \* rows of the input table
MaxMatches == 2       \* entries of the ledger apply_matches reads

SetMin(S) == CHOOSE x \in S : \A y \in S : x <= y

\* fillna("").str.lower().str.strip() of a cell
CellKey(v) == strip(lower(IF isna(v) THEN <<>> ELSE v))

\* lines 121-129: positions of the rows whose Name, Name - Ops or Name - HOO
\* equals the ledger name, ignoring case and surrounding whitespace
build_mask(df, name) ==
    LET name_lower == strip(lower(name))
    IN {i \in DOMAIN df : \/ CellKey(df[i].Name) = name_lower
                          \/ CellKey(df[i].NameOps) = name_lower
                          \/ CellKey(df[i].NameHOO) = name_lower}

\* lines 131-143: the two groups of rows, swapped when one direction finds
\* nothing
Selection(df, match) ==
    LET by_source == build_mask(df, match.Source)
        by_target == build_mask(df, match.Target)
        swap == ~(by_source # {} /\ by_target # {})
    IN [source_records |-> IF swap THEN by_target ELSE by_source,
        target_records |-> IF swap THEN by_source ELSE by_target]

\* lines 150-151: the first unprocessed row of the group, else its first row
FirstRecord(df, mask) ==
    LET unprocessed == {i \in mask : ~df[i].processed}
    IN IF unprocessed # {} THEN SetMin(unprocessed) ELSE SetMin(mask)

\* a test that looks at "Name - HOO" only
SameSourceField_HOOOnly(source_record, target_record) ==
    /\ notna(source_record.NameHOO) /\ notna(target_record.NameHOO)
    /\ ~(is_library(source_record) /\ is_library(target_record))

\* lines 154-159: both rows hold a value in the same source-specific name
\* column and they are not both libraries
SameSourceField(source_record, target_record) ==
    /\ \/ notna(source_record.NameHOO) /\ notna(target_record.NameHOO)
       \/ notna(source_record.NameOps) /\ notna(target_record.NameOps)
    /\ ~(is_library(source_record) /\ is_library(target_record))

\* DataFrame.drop(index=label)
DropIndex(df, label) ==
    LET keep == {i \in DOMAIN df : df[i].index # label}
        F[i \in 0..Len(df)] ==
            IF i = 0 THEN <<>>
            ELSE IF i \in keep THEN Append(F[i - 1], df[i]) ELSE F[i - 1]
    IN F[Len(df)]

\* a null is written as an empty field
WriteCell(v) == IF isna(v) THEN <<>> ELSE v

\* to_csv(index=False) after dropping the "processed" column (lines 177-187)
to_csv(df) ==
    [i \in DOMAIN df |->
        [RecordID |-> df[i].RecordID, Name |-> WriteCell(df[i].Name),
         NameOps |-> WriteCell(df[i].NameOps),
         NameHOO |-> WriteCell(df[i].NameHOO),
         source |-> WriteCell(df[i].source), URL |-> WriteCell(df[i].URL),
         merged_from |-> df[i].merged_from, merge_note |-> df[i].merge_note]]

\* an empty text cell of the file is read back as a null
ReadCell(v) == IF v = <<>> THEN NaN ELSE v

\* pd.read_csv followed by result_df["processed"] = False (lines 104-109)
read_csv(file) ==
    [i \in DOMAIN file |->
        [index |-> i - 1, RecordID |-> file[i].RecordID,
         Name |-> ReadCell(file[i].Name), NameOps |-> ReadCell(file[i].NameOps),
         NameHOO |-> ReadCell(file[i].NameHOO),
         source |-> ReadCell(file[i].source), URL |-> ReadCell(file[i].URL),
         merged_from |-> file[i].merged_from, merge_note |-> file[i].merge_note,
         processed |-> FALSE]]

InLoop == apply_pc = "loop" /\ mi \in DOMAIN matches

\* lines 116-118: a missing Source or Target
SkipMissingName ==
    /\ InLoop
    /\ isna(matches[mi].Source) \/ isna(matches[mi].Target)
    /\ mi' = mi + 1
    /\ UNCHANGED <<overrideVars, fixVars, nameVars, resolveVars, idVars, genVars, mainVars, ledgerVars, verifiedVars, manualVars, result_df, matches, apply_pc, run, out1, applied>>

Resolvable ==
    /\ InLoop
    /\ notna(matches[mi].Source) /\ notna(matches[mi].Target)

\* lines 145-147: no row for one of the names, in either direction
SkipNotFound ==
    /\ Resolvable
    /\ LET sel == Selection(result_df, matches[mi])
       IN sel.source_records = {} \/ sel.target_records = {}
    /\ mi' = mi + 1
    /\ UNCHANGED <<overrideVars, fixVars, nameVars, resolveVars, idVars, genVars, mainVars, ledgerVars, verifiedVars, manualVars, result_df, matches, apply_pc, run, out1, applied>>

\* lines 159-163: mark both rows processed, merge nothing
SkipSameSourceField ==
    /\ Resolvable
    /\ LET sel == Selection(result_df, matches[mi])
       IN /\ sel.source_records # {}
          /\ sel.target_records # {}
          /\ LET sp == FirstRecord(result_df, sel.source_records)
                 tp == FirstRecord(result_df, sel.target_records)
             IN /\ SameSourceField(result_df[sp], result_df[tp])
                /\ result_df' = [i \in DOMAIN result_df |->
                                    IF i \in {sp, tp}
                                    THEN [result_df[i] EXCEPT !.processed = TRUE]
                                    ELSE result_df[i]]
    /\ mi' = mi + 1
    /\ UNCHANGED <<overrideVars, fixVars, nameVars, resolveVars, idVars, genVars, mainVars, ledgerVars, verifiedVars, manualVars, matches, apply_pc, run,
                   out1, applied>>

\* lines 166-174: merge the two rows and drop the secondary
MergeMatch ==
    /\ Resolvable
    /\ LET sel == Selection(result_df, matches[mi])
       IN /\ sel.source_records # {}
          /\ sel.target_records # {}
          /\ LET sp == FirstRecord(result_df, sel.source_records)
                 tp == FirstRecord(result_df, sel.target_records)
                 first == get_preferred_record(result_df[sp], result_df[tp])
                 primary_record == result_df[IF first THEN sp ELSE tp]
                 secondary_record == result_df[IF first THEN tp ELSE sp]
                 merged_record ==
                     [merge_records(primary_record, secondary_record)
                         EXCEPT !.processed = TRUE]
             IN /\ ~SameSourceField(result_df[sp], result_df[tp])
                /\ result_df' =
                       DropIndex([result_df EXCEPT
                                     ![IF first THEN sp ELSE tp] = merged_record],
                                 secondary_record.index)
                /\ applied' = Append(applied,
                                     [entry |-> mi, Label |-> matches[mi].Label,
                                      primary |-> primary_record,
                                      secondary |-> secondary_record,
                                      merged |-> merged_record])
    /\ mi' = mi + 1
    /\ UNCHANGED <<overrideVars, fixVars, nameVars, resolveVars, idVars, genVars, mainVars, ledgerVars, verifiedVars, manualVars, matches, apply_pc, run, out1>>

\* lines 176-190: the loop is over, the table is written to output_path
FinishApply ==
    /\ apply_pc = "loop"
    /\ mi = Len(matches) + 1
    /\ apply_pc' = "done"
    /\ out1' = IF run = 1 THEN to_csv(result_df) ELSE out1
    /\ UNCHANGED <<overrideVars, fixVars, nameVars, resolveVars, idVars, genVars, mainVars, ledgerVars, verifiedVars, manualVars, result_df, matches, mi, run, applied>>

\* apply_matches run again on the file the first run wrote, same ledger
RerunApply ==
    /\ apply_pc = "done"
    /\ run = 1
    /\ result_df' = read_csv(out1)
    /\ mi' = 1
    /\ run' = 2
    /\ apply_pc' = "loop"
    /\ applied' = <<>>
    /\ UNCHANGED <<overrideVars, fixVars, nameVars, resolveVars, idVars, genVars, mainVars, ledgerVars, verifiedVars, manualVars, matches, out1>>

NextApply ==
    \/ SkipMissingName
    \/ SkipNotFound
    \/ SkipSameSourceField
    \/ MergeMatch
    \/ FinishApply
    \/ RerunApply

-----------------------------------------------------------------------------
(* apply_matches.py: input tables and ledgers of the model *)

N_doe == <<"d", "o", "e">>
N_DOE == <<"D", "O", "E", " ">>
N_dot == <<"d", "o", "t">>
N_ed == <<"e", "d">>
N_Ed == <<"E", "d", " ">>
N_qpl == <<"q", "p", "l", " ", "l", "i", "b", "r", "a", "r", "y">>
N_LibQ == <<"L", "i", "b", "r", "a", "r", "y", " ", "Q">>
N_LibQ_QPL == N_LibQ \o <<";", " ", "Q", "P", "L", " ">> \o
              <<"L", "i", "b", "r", "a", "r", "y">>
N_zz == <<"z", "z">>
U_blank == <<" ">>                   \* a whitespace-only cell
U_doe == <<"u", "/", "d", "o", "e">>
U_dot == <<"u", "/", "d", "o", "t">>

NoNote == <<>>                       \* a null merge_note cell
PriorNote == <<Note("prior", <<>>, 0, {})>>

\* The rows input tables are built from.  Every row has a Name and a unique
\* RecordID; no merged_from holds the row's own id.
RowPool == <<
    Row(0, "REC_000001", N_doe, NaN, NaN, S_export, U_blank,
        MergedFrom("repr", <<"REC_000007">>), NoNote),
    Row(0, "OPS_000002", N_dot, N_dot, NaN, S_ops, U_dot,
        MergedFrom("json", <<"HOO_000009">>), PriorNote),
    Row(0, "REC_000003", N_ed, NaN, NaN, NaN, U_doe,
        MergedFrom("nan", <<>>), NoNote),
    Row(0, "HOO_000004", N_Ed, NaN, NaN, S_nyc_gov, NaN,
        MergedFrom("nan", <<>>), NoNote),
    Row(0, "OPS_000005", N_qpl, N_qpl, NaN, S_ops, NaN,
        MergedFrom("nan", <<>>), NoNote),
    Row(0, "OPS_000006", N_LibQ, N_LibQ_QPL, NaN, S_ops, NaN,
        MergedFrom("nan", <<>>), NoNote) >>

\* the rows of RowPool at the positions of S, in pool order, indexed 0..n-1
\* as pd.read_csv indexes them
TableOf(S) ==
    LET F[i \in 0..Len(RowPool)] ==
            IF i = 0 THEN <<>>
            ELSE IF i \in S
                 THEN Append(F[i - 1], [RowPool[i] EXCEPT !.index = Len(F[i - 1])])
                 ELSE F[i - 1]
    IN F[Len(RowPool)]

InputTables ==
    {TableOf(S) : S \in {T \in SUBSET DOMAIN RowPool :
                            Cardinality(T) >= 2 /\ Cardinality(T) <= MaxRows}}

ApplyEntry(src, tgt, score, label) == Entry(src, tgt, score, label, NoneID, NoneID)

ApplyEntries == {
    ApplyEntry(N_doe, N_dot, 970, "Match"),
    ApplyEntry(N_doe, N_ed, 850, "NonMatch"),
    ApplyEntry(N_ed, N_doe, 970, "Match"),
    ApplyEntry(N_DOE, N_doe, 1000, "Match"),
    ApplyEntry(N_qpl, N_LibQ, 970, "Match"),
    ApplyEntry(N_dot, N_qpl, 850, ""),
    ApplyEntry(NaN, N_doe, 970, "Match"),
    ApplyEntry(N_zz, N_doe, 970, "Match") }

\* the ledger files: written through drop_duplicates on (Source, Target)
\* (generate_matches.py lines 128-131), so no ordered pair is in one twice
ApplyLedgers ==
    {l \in SeqsUpTo(ApplyEntries, MaxMatches) \ {<<>>} : DropDuplicates(l) = l}

InitApply ==
    /\ result_df \in InputTables
    /\ matches \in ApplyLedgers
    /\ mi = 1
    /\ apply_pc = "loop"
    /\ run = 1
    /\ out1 = <<>>
    /\ applied = <<>>
    /\ IdleLedger
    /\ IdleVerified
    /\ IdleManual
    /\ IdleMain
    /\ IdleIds
    /\ IdleGen
    /\ IdleResolve
    /\ IdleName
    /\ IdleFix
    /\ IdleOverride

SpecApply == InitApply /\ [][NextApply]_vars

-----------------------------------------------------------------------------
(* apply_verified_matches.py: process_verified_matches *)

\* Entries per batch.  The source processes 50 per batch (line 160); the
\* model scales the batch down so that a ledger of MaxVerified entries spans
\* more than one batch.
batch_size == 2
MaxVerified == 3      \* entries of the ledger process_verified_matches reads
MaxVerifiedRows == 3  \* rows of its input table

SetMax(S) == CHOOSE x \in S : \A y \in S : x >= y

TextColumns == {"Name", "NameOps", "NameHOO", "source", "URL"}

\* record.notna().sum() (lines 210-211)
Completeness(record) ==
    Cardinality({c \in TextColumns : notna(record[c])}) + 1
    + (IF record.merged_from.fmt # "nan" THEN 1 ELSE 0)
    + (IF record.merge_note # <<>> THEN 1 ELSE 0)

\* build_record_map (lines 91-93) and record_map.get: the position of the
\* last row holding the id, 0 when no row holds it
RecordPos(table, id) ==
    LET hits == {i \in DOMAIN table : table[i].RecordID = id}
    IN IF hits = {} THEN 0 ELSE SetMax(hits)

\* lines 113-121: a source-specific name field
PreserveName(m, sec) ==
    IF notna(sec)
    THEN IF isna(m) THEN sec
         ELSE IF m # sec THEN m \o <<"|">> \o sec
         ELSE m
    ELSE m

\* lines 95-139 without the merge_conflicts entry
merge_record_information(preferred, secondary) ==
    [preferred EXCEPT
        !.NameOps = PreserveName(preferred.NameOps, secondary.NameOps),
        !.NameHOO = PreserveName(preferred.NameHOO, secondary.NameHOO),
        !.Name = MergeOtherColumn(preferred.Name, secondary.Name),
        !.source = MergeOtherColumn(preferred.source, secondary.source),
        !.URL = MergeOtherColumn(preferred.URL, secondary.URL)]

\* lines 131-133: the columns recorded in merge_conflicts (the order of the
\* list follows set iteration order and is not modelled)
MergeConflicts(merged, secondary) ==
    {c \in TextColumns :
        notna(merged[c]) /\ notna(secondary[c]) /\ merged[c] # secondary[c]}
    \cup (IF merged.RecordID # secondary.RecordID THEN {"RecordID"} ELSE {})

\* safe_json_loads (lines 55-62)
safe_json_loads(cell) == IF cell.fmt = "json" THEN cell.ids ELSE <<>>

\* update_metadata (lines 64-89) applied to the merged record; a null
\* merge_note is a float nan, which is truthy and is prepended as "nan"
update_metadata(record, secondary, score, conflicts) ==
    [record EXCEPT
        !.merged_from = MergedFrom("json",
                            Append(safe_json_loads(record.merged_from),
                                   secondary.RecordID)),
        !.merge_note =
            (IF record.merge_note = <<>> THEN <<Note("nan", <<>>, 0, {})>>
             ELSE record.merge_note)
            \o <<Note("merged_with", <<secondary.RecordID>>, score, conflicts)>>]

\* lines 225-230
VerifiedMerge(preferred, secondary, score) ==
    LET merged == merge_record_information(preferred, secondary)
    IN update_metadata(merged, secondary, score,
                       MergeConflicts(merged, secondary))

\* the unordered id pair tuple(sorted([source_id, target_id])) (line 190)
IdPair(match) == {match.SourceID, match.TargetID}

BatchEnd ==
    IF start_idx + batch_size - 1 < Len(matches_df)
    THEN start_idx + batch_size - 1 ELSE Len(matches_df)

InBatch == vpc = "batch" /\ k <= BatchEnd

\* lines 143-157: stats, metadata columns, sort by Score descending
VBegin ==
    /\ vpc = "start"
    /\ stats' = [total_matches |-> Len(matches_df), matches_applied |-> 0,
                 skipped_matches |-> 0, processed_ids |-> {},
                 original_records |-> Len(verified_df), final_records |-> 0]
    /\ matches_df' = SortByScoreDesc(matches_df)
    /\ start_idx' = 1
    /\ k' = 1
    /\ batch' = EmptyBatch
    /\ vpc' = "batch"
    /\ UNCHANGED <<overrideVars, fixVars, nameVars, resolveVars, idVars, genVars, mainVars, ledgerVars, applyVars, manualVars, verified_df, vapplied>>

VSkip ==
    /\ stats' = [stats EXCEPT !.skipped_matches = @ + 1]
    /\ k' = k + 1
    /\ UNCHANGED <<overrideVars, fixVars, nameVars, resolveVars, idVars, genVars, mainVars, ledgerVars, applyVars, manualVars, verified_df, matches_df, vpc,
                   start_idx, batch, vapplied>>

\* lines 178-181
VSkipMissingID ==
    /\ InBatch
    /\ matches_df[k].SourceID = NoneID \/ matches_df[k].TargetID = NoneID
    /\ VSkip

HasIds == InBatch /\ matches_df[k].SourceID # NoneID /\ matches_df[k].TargetID # NoneID

\* lines 184-187
VSkipSelfReferential ==
    /\ HasIds
    /\ matches_df[k].SourceID = matches_df[k].TargetID
    /\ VSkip

Distinct == HasIds /\ matches_df[k].SourceID # matches_df[k].TargetID

\* lines 190-194: the pair was processed in an EARLIER batch
VSkipProcessedPair ==
    /\ Distinct
    /\ IdPair(matches_df[k]) \in stats.processed_ids
    /\ VSkip

Fresh == Distinct /\ IdPair(matches_df[k]) \notin stats.processed_ids

\* lines 197-203
VSkipNotFound ==
    /\ Fresh
    /\ RecordPos(verified_df, matches_df[k].SourceID) = 0
         \/ RecordPos(verified_df, matches_df[k].TargetID) = 0
    /\ VSkip

\* lines 206-237: choose the more complete record, queue update and removal
VQueueMerge ==
    /\ Fresh
    /\ RecordPos(verified_df, matches_df[k].SourceID) # 0
    /\ RecordPos(verified_df, matches_df[k].TargetID) # 0
    /\ LET source_idx == RecordPos(verified_df, matches_df[k].SourceID)
           target_idx == RecordPos(verified_df, matches_df[k].TargetID)
           keep_source == Completeness(verified_df[source_idx])
                            >= Completeness(verified_df[target_idx])
           kept_idx == IF keep_source THEN source_idx ELSE target_idx
           removed_idx == IF keep_source THEN target_idx ELSE source_idx
           merged_record == VerifiedMerge(verified_df[kept_idx],
                                          verified_df[removed_idx],
                                          matches_df[k].Score)
       IN /\ batch' = [indices_to_drop |-> Append(batch.indices_to_drop, removed_idx),
                       batch_updates |-> Append(batch.batch_updates,
                                                <<kept_idx, merged_record>>),
                       batch_processed_ids |-> batch.batch_processed_ids
                                               \cup {IdPair(matches_df[k])}]
          /\ vapplied' = Append(vapplied,
                                [Label |-> matches_df[k].Label,
                                 primary |-> verified_df[kept_idx],
                                 secondary |-> verified_df[removed_idx],
                                 merged |-> merged_record])
    /\ k' = k + 1
    /\ UNCHANGED <<overrideVars, fixVars, nameVars, resolveVars, idVars, genVars, mainVars, ledgerVars, applyVars, manualVars, verified_df, matches_df, vpc,
                   start_idx, stats>>

\* lines 245-248: the queued records overwrite their rows, in queue order
RECURSIVE ApplyUpdates(_, _)
ApplyUpdates(table, updates) ==
    IF updates = <<>> THEN table
    ELSE ApplyUpdates([table EXCEPT ![Head(updates)[1]] = Head(updates)[2]],
                      Tail(updates))

\* lines 251-253: drop(index=indices_to_drop) and reset_index
DropPositions(table, drop) ==
    LET F[i \in 0..Len(table)] ==
            IF i = 0 THEN <<>>
            ELSE IF i \in drop THEN F[i - 1] ELSE Append(F[i - 1], table[i])
    IN F[Len(table)]

\* lines 244-261: the end of a batch
VEndBatch ==
    /\ vpc = "batch"
    /\ k > BatchEnd
    /\ verified_df' = DropPositions(ApplyUpdates(verified_df, batch.batch_updates),
                                    Range(batch.indices_to_drop))
    /\ stats' = [stats EXCEPT
                    !.matches_applied = @ + Len(batch.batch_updates),
                    !.processed_ids = @ \cup batch.batch_processed_ids]
    /\ batch' = EmptyBatch
    /\ start_idx' = BatchEnd + 1
    /\ k' = BatchEnd + 1
    /\ vpc' = IF BatchEnd < Len(matches_df) THEN "batch" ELSE "return"
    /\ UNCHANGED <<overrideVars, fixVars, nameVars, resolveVars, idVars, genVars, mainVars, ledgerVars, applyVars, manualVars, matches_df, vapplied>>

\* lines 264-269
VReturn ==
    /\ vpc = "return"
    /\ stats' = [stats EXCEPT !.final_records = Len(verified_df)]
    /\ vpc' = "done"
    /\ UNCHANGED <<overrideVars, fixVars, nameVars, resolveVars, idVars, genVars, mainVars, ledgerVars, applyVars, manualVars, verified_df, matches_df, start_idx,
                   k, batch, vapplied>>

NextVerified ==
    \/ VBegin
    \/ VSkipMissingID
    \/ VSkipSelfReferential
    \/ VSkipProcessedPair
    \/ VSkipNotFound
    \/ VQueueMerge
    \/ VEndBatch
    \/ VReturn

VerifiedEntry(sid, tid, score, label) == Entry(N_doe, N_dot, score, label, sid, tid)

VerifiedEntries == {
    VerifiedEntry("REC_000001", "OPS_000002", 970, "Match"),
    VerifiedEntry("OPS_000002", "REC_000001", 970, "Match"),
    VerifiedEntry("REC_000001", "REC_000003", 850, ""),
    VerifiedEntry("REC_000003", "OPS_000002", 850, "NonMatch"),
    VerifiedEntry("REC_000003", "HOO_000004", 970, "Match"),
    VerifiedEntry("REC_000001", "REC_000001", 1000, "Match"),
    VerifiedEntry(NoneID, "OPS_000002", 970, "Match"),
    VerifiedEntry("REC_000001", "REC_000099", 970, "Match") }

VerifiedTables ==
    {TableOf(S) : S \in {T \in SUBSET (1..4) :
                            Cardinality(T) >= 2 /\ Cardinality(T) <= MaxVerifiedRows}}

InitVerified ==
    /\ verified_df \in VerifiedTables
    /\ matches_df \in SeqsUpTo(VerifiedEntries, MaxVerified) \ {<<>>}
    /\ vpc = "start"
    /\ start_idx = 0
    /\ k = 0
    /\ batch = EmptyBatch
    /\ stats = NoStats
    /\ vapplied = <<>>
    /\ IdleLedger
    /\ IdleApply
    /\ IdleManual
    /\ IdleMain
    /\ IdleIds
    /\ IdleGen
    /\ IdleResolve
    /\ IdleName
    /\ IdleFix
    /\ IdleOverride

SpecVerified == InitVerified /\ [][NextVerified]_vars

-----------------------------------------------------------------------------
(* phase2.6_manual_merge.py: merge_records and apply_manual_merges *)

MaxOverrides == 2     \* rows of manual_overrides.csv
MaxManualRows == 3    \* rows of the input table

ManualRow(rid, name, acr, alt, url, hist) ==
    [RecordID |-> rid, Name |-> name, Acronym |-> acr, AlternateAcronyms |-> alt,
     URL |-> url, manual_merge_history |-> hist]

\* lines 173-182: the secondary's Acronym goes into AlternateAcronyms
MergeAcronym(alternate, secondary_acronym) ==
    IF notna(secondary_acronym)
    THEN IF isna(alternate) \/ alternate = <<>> THEN strip(secondary_acronym)
         ELSE IF \E i \in DOMAIN split(alternate, <<>>) :
                    strip(split(alternate, <<>>)[i]) = strip(secondary_acronym)
              THEN alternate
              ELSE alternate \o <<";", " ">> \o strip(secondary_acronym)
    ELSE alternate

\* lines 163-200.  Columns are visited in the file's order, Acronym before
\* AlternateAcronyms; RecordID, Name and manual_merge_history are skipped.
manual_merge_records(primary, secondary) ==
    LET alternate == MergeAcronym(primary.AlternateAcronyms, secondary.Acronym)
    IN [primary EXCEPT
            !.AlternateAcronyms =
                MergeOtherColumn(alternate, secondary.AlternateAcronyms),
            !.URL = MergeOtherColumn(primary.URL, secondary.URL),
            !.manual_merge_history = Append(@, secondary.RecordID)]

MaskOf(table, id) == {i \in DOMAIN table : table[i].RecordID = id}

InOverrides == oi \in DOMAIN overrides_df

\* lines 267-273
MSkipNoPrimary ==
    /\ InOverrides
    /\ MaskOf(manual_df, overrides_df[oi].PrimaryRecordID) = {}
    /\ manual_stats' = [manual_stats EXCEPT !.failed_merges = @ + 1]
    /\ oi' = oi + 1
    /\ UNCHANGED <<overrideVars, fixVars, nameVars, resolveVars, idVars, genVars, mainVars, ledgerVars, applyVars, verifiedVars, manual_df, overrides_df,
                   mapplied>>

\* lines 275-281
MSkipNoSecondary ==
    /\ InOverrides
    /\ MaskOf(manual_df, overrides_df[oi].PrimaryRecordID) # {}
    /\ MaskOf(manual_df, overrides_df[oi].SecondaryRecordID) = {}
    /\ manual_stats' = [manual_stats EXCEPT !.failed_merges = @ + 1]
    /\ oi' = oi + 1
    /\ UNCHANGED <<overrideVars, fixVars, nameVars, resolveVars, idVars, genVars, mainVars, ledgerVars, applyVars, verifiedVars, manual_df, overrides_df,
                   mapplied>>

\* lines 283-298: merge, write the primary's rows, remove the secondary's rows
MMerge ==
    /\ InOverrides
    /\ MaskOf(manual_df, overrides_df[oi].PrimaryRecordID) # {}
    /\ MaskOf(manual_df, overrides_df[oi].SecondaryRecordID) # {}
    /\ LET primary_mask == MaskOf(manual_df, overrides_df[oi].PrimaryRecordID)
           secondary_mask == MaskOf(manual_df, overrides_df[oi].SecondaryRecordID)
           primary_record == manual_df[SetMin(primary_mask)]
           secondary_record == manual_df[SetMin(secondary_mask)]
           merged_record == manual_merge_records(primary_record, secondary_record)
           updated == [i \in DOMAIN manual_df |->
                          IF i \in primary_mask THEN merged_record ELSE manual_df[i]]
       IN /\ manual_df' = DropPositions(updated, secondary_mask)
          /\ mapplied' = Append(mapplied, [primary |-> primary_record,
                                           secondary |-> secondary_record,
                                           merged |-> merged_record])
    /\ manual_stats' = [manual_stats EXCEPT !.successful_merges = @ + 1]
    /\ oi' = oi + 1
    /\ UNCHANGED <<overrideVars, fixVars, nameVars, resolveVars, idVars, genVars, mainVars, ledgerVars, applyVars, verifiedVars, overrides_df>>

NextManual ==
    \/ MSkipNoPrimary
    \/ MSkipNoSecondary
    \/ MMerge

A_DOT == <<"D", "O", "T">>
A_D == <<"D">>
A_DOE == <<" ", "D", "O", "E">>

ManualRowPool == <<
    ManualRow("FINAL_REC_000001", N_doe, NaN, NaN, NaN, <<>>),
    ManualRow("FINAL_REC_000002", N_dot, A_DOT, A_D, U_dot, <<>>),
    ManualRow("FINAL_REC_000003", NaN, A_DOE, NaN, U_blank, <<"FINAL_REC_000008">>) >>

ManualTables ==
    {t \in SeqsUpTo(Range(ManualRowPool), MaxManualRows) :
        /\ Len(t) >= 2
        /\ \A i, j \in DOMAIN t : i < j => t[i].RecordID # t[j].RecordID}

Override(p, sec) == [PrimaryRecordID |-> p, SecondaryRecordID |-> sec]

\* str() of a blank SecondaryRecordID cell is "nan"
OverridePool == {
    Override("FINAL_REC_000001", "FINAL_REC_000002"),
    Override("FINAL_REC_000002", "FINAL_REC_000003"),
    Override("FINAL_REC_000003", "FINAL_REC_000001"),
    Override("FINAL_REC_000001", "FINAL_REC_000001"),
    Override("FINAL_REC_000001", "nan"),
    Override("FINAL_REC_000009", "FINAL_REC_000002") }

InitManual ==
    /\ manual_df \in ManualTables
    /\ overrides_df \in SeqsUpTo(OverridePool, MaxOverrides) \ {<<>>}
    /\ oi = 1
    /\ manual_stats = [successful_merges |-> 0, failed_merges |-> 0]
    /\ mapplied = <<>>
    /\ IdleLedger
    /\ IdleApply
    /\ IdleVerified
    /\ IdleMain
    /\ IdleIds
    /\ IdleGen
    /\ IdleResolve
    /\ IdleName
    /\ IdleFix
    /\ IdleOverride

SpecManual == InitManual /\ [][NextManual]_vars

-----------------------------------------------------------------------------
(* main.py: main, from final_cleanup to the last write of the output file *)

\* final_cleanup step 1 (lines 171-176): the "source" column is dropped.  A
\* row without the column answers rec.get("source") with None, which
\* pd.notna rejects exactly as it rejects a null, so the dropped column is a
\* null in every row.
final_cleanup(final_df) ==
    [i \in DOMAIN final_df |-> [final_df[i] EXCEPT !.source = NaN]]

\* the file at final_path: its rows, whether apply_matches has written it,
\* whether the columns lines 471-501 set are in it
File(table, matched, resolved) ==
    [exists |-> TRUE, table |-> table, matched |-> matched, resolved |-> resolved]

\* lines 392-394: a required input file is missing, FileNotFoundError
MainRaiseRequiredFile ==
    /\ main_pc = "start"
    /\ main_pc' = "raised"
    /\ UNCHANGED <<overrideVars, fixVars, nameVars, resolveVars, idVars, genVars, ledgerVars, applyVars, verifiedVars, manualVars, final_path>>

\* lines 440-442: final_cleanup, then final_df.to_csv(final_path)
MainWriteCleaned ==
    /\ main_pc = "start"
    /\ result_df' = final_cleanup(result_df)
    /\ final_path' = File(to_csv(final_cleanup(result_df)), FALSE, FALSE)
    /\ main_pc' = "written"
    /\ UNCHANGED <<overrideVars, fixVars, nameVars, resolveVars, idVars, genVars, ledgerVars, verifiedVars, manualVars, matches, mi, apply_pc,
                   run, out1, applied>>

\* lines 449, 506-507: --skip-apply-matches
MainSkipApply ==
    /\ main_pc = "written"
    /\ main_pc' = "done"
    /\ UNCHANGED <<overrideVars, fixVars, nameVars, resolveVars, idVars, genVars, ledgerVars, applyVars, verifiedVars, manualVars, final_path>>

\* lines 453-454 with apply_matches line 105: consolidated_matches.csv does
\* not exist, pd.read_csv raises and lines 513-515 re-raise
MainApplyRaise ==
    /\ main_pc = "written"
    /\ ~ledgerExists
    /\ main_pc' = "raised"
    /\ UNCHANGED <<overrideVars, fixVars, nameVars, resolveVars, idVars, genVars, ledgerVars, applyVars, verifiedVars, manualVars, final_path>>

\* lines 453-454 with apply_matches lines 104-109: the file main has just
\* written is read back and the loop over the ledger starts
MainCallApply ==
    /\ main_pc = "written"
    /\ ledgerExists
    /\ result_df' = read_csv(final_path.table)
    /\ mi' = 1
    /\ apply_pc' = "loop"
    /\ main_pc' = "apply"
    /\ UNCHANGED <<overrideVars, fixVars, nameVars, resolveVars, idVars, genVars, ledgerVars, verifiedVars, manualVars, matches, run, out1,
                   applied, final_path>>

\* apply_matches lines 176-190 inside main: output_path is final_path
MainFinishApply ==
    /\ main_pc = "apply"
    /\ apply_pc = "loop"
    /\ mi = Len(matches) + 1
    /\ apply_pc' = "done"
    /\ out1' = to_csv(result_df)
    /\ final_path' = File(to_csv(result_df), TRUE, FALSE)
    /\ main_pc' = "resolve"
    /\ UNCHANGED <<overrideVars, fixVars, nameVars, resolveVars, idVars, genVars, ledgerVars, verifiedVars, manualVars, result_df, matches, mi,
                   run, applied>>

\* lines 456-504: reload, PO_Name_Status, Suggested_PO_Name, Suggested_URL,
\* final_df.to_csv(final_path)
MainResolve ==
    /\ main_pc = "resolve"
    /\ final_path' = File(final_path.table, TRUE, TRUE)
    /\ main_pc' = "done"
    /\ UNCHANGED <<overrideVars, fixVars, nameVars, resolveVars, idVars, genVars, ledgerVars, applyVars, verifiedVars, manualVars>>

NextMain ==
    \/ MainRaiseRequiredFile
    \/ MainWriteCleaned
    \/ MainSkipApply
    \/ MainApplyRaise
    \/ MainCallApply
    \/ SkipMissingName
    \/ SkipNotFound
    \/ SkipSameSourceField
    \/ MergeMatch
    \/ MainFinishApply
    \/ MainResolve

\* merged_df as it reaches final_cleanup, and the ledger file if there is one
InitMain ==
    /\ result_df \in InputTables
    /\ ledgerExists \in BOOLEAN
    /\ matches \in (IF ledgerExists THEN ApplyLedgers ELSE {<<>>})
    /\ mi = 0
    /\ apply_pc = "idle"
    /\ run = 1
    /\ out1 = <<>>
    /\ applied = <<>>
    /\ main_pc = "start"
    /\ final_path = NoFile
    /\ ledger = <<>>
    /\ ledgerOp = "none"
    /\ nOps = 0
    /\ IdleVerified
    /\ IdleManual
    /\ IdleGen
    /\ IdleIds
    /\ IdleResolve
    /\ IdleName
    /\ IdleFix
    /\ IdleOverride

SpecMain == InitMain /\ [][NextMain]_vars

-----------------------------------------------------------------------------
(* generate_matches.py: generate_potential_matches and main *)

MaxGenRuns == 2         \* runs of generate_matches.main per behaviour
MaxExistingPairs == 2   \* pairs in the existing_pairs argument

\* str comparison of the names of the model, as sorted() sees them
NameRank ==
    [n \in GenNames |->
        CASE n = "department transportation" -> 1
          [] n = "tax commission" -> 2
          [] n = "transportation department" -> 3]

\* tuple(sorted([name1, name2])) (lines 70 and 166)
SortedPair(name1, name2) ==
    IF NameRank[name1] <= NameRank[name2] THEN <<name1, name2>>
    ELSE <<name2, name1>>

\* round(score, 1) (line 98): hundredths to tenths.  No score of the model
\* ends in 5, where Python rounds the binary value of the float.
Round1(score) == (score + 5) \div 10

\* df[df['NameNormalized'] == name].iloc[0]['RecordID'] (lines 82-83, 100-101)
RecordIDOf(name) ==
    CASE name = "department transportation" -> "REC_000001"
      [] name = "tax commission" -> "REC_000002"
      [] name = "transportation department" -> "REC_000003"

\* the input table df behind RecordIDOf: one record per name, whose
\* 'Agency Name' is the raw name NameNormalized was derived from
GenTable == <<
    [RecordID |-> "REC_000001", AgencyName |-> "Department of Transportation",
     NameNormalized |-> "department transportation"],
    [RecordID |-> "REC_000002", AgencyName |-> "tax commission",
     NameNormalized |-> "tax commission"],
    [RecordID |-> "REC_000003", AgencyName |-> "Transportation Department",
     NameNormalized |-> "transportation department"] >>

\* lines 95-103: the emitted match
EmittedMatch(name1, name2, score) ==
    Entry(name1, name2, Round1(score), IF score >= 9500 THEN "Match" ELSE "",
          RecordIDOf(name1), RecordIDOf(name2))

\* lines 60-61: the pairs (i, j), i < j, in the order the loops visit them
RECURSIVE PairsInOrder(_, _, _)
PairsInOrder(names, i, j) ==
    IF i >= Len(names) THEN <<>>
    ELSE IF j > Len(names) THEN PairsInOrder(names, i + 1, i + 2)
    ELSE <<(<<names[i], names[j]>>)>> \o PairsInOrder(names, i, j + 1)

\* lines 31-110
RECURSIVE GenerateFrom(_, _, _)
GenerateFrom(pairs, existing, matcher) ==
    IF pairs = <<>> THEN <<>>
    ELSE LET name1 == Head(pairs)[1]
             name2 == Head(pairs)[2]
             rest == GenerateFrom(Tail(pairs), existing, matcher)
         IN IF SortedPair(name1, name2) \in existing THEN rest
            ELSE IF matcher[<<name1, name2>>] >= 8200
                 THEN <<EmittedMatch(name1, name2, matcher[<<name1, name2>>])>>
                      \o rest
                 ELSE rest

generate_potential_matches(names, existing, matcher) ==
    GenerateFrom(PairsInOrder(names, 1, 2), existing, matcher)

\* main lines 162-169: the existing pairs read from the ledger file
LoadExistingPairs(file) ==
    {SortedPair(file[i].Source, file[i].Target) : i \in DOMAIN file}

\* a run that appends every candidate without looking at the ledger
MainLedger_AppendAll(file, exists, names, matcher) ==
    file \o generate_potential_matches(names, {}, matcher)

\* main lines 149-180 with save_matches lines 112-147: the ledger file after
\* one run.  An empty list of matches makes save_matches raise KeyError
\* (sort_values('Score') on a frame without columns) before it writes.
MainLedger(file, exists, names, matcher) ==
    LET new == generate_potential_matches(
                   names, IF exists THEN LoadExistingPairs(file) ELSE {}, matcher)
    IN IF new = <<>> THEN file
       ELSE IF exists
            THEN SortByScoreDesc(DropDuplicates(file \o SortByScoreDesc(new)))
            ELSE SortByScoreDesc(new)

\* the list main hands to save_matches
MainMatches ==
    generate_potential_matches(
        gen_names, IF ledgerExists THEN LoadExistingPairs(ledger) ELSE {},
        find_matches)

\* a call of generate_potential_matches (lines 31-110)
GenCall ==
    /\ gen_pc = "ready"
    /\ emitted' = generate_potential_matches(gen_names, existing_pairs, find_matches)
    /\ gen_pc' = "returned"
    /\ UNCHANGED <<overrideVars, fixVars, nameVars, resolveVars, idVars, ledgerVars, applyVars, verifiedVars, manualVars, mainVars,
                   gen_names, find_matches, existing_pairs>>

NextGenCall ==
    \/ GenCall

\* a run of main that saves matches
GenMainSaved ==
    /\ gen_pc = "main"
    /\ nOps < MaxGenRuns
    /\ MainMatches # <<>>
    /\ ledger' = MainLedger(ledger, ledgerExists, gen_names, find_matches)
    /\ ledgerExists' = TRUE
    /\ ledgerOp' = "save_matches"
    /\ nOps' = nOps + 1
    /\ UNCHANGED <<overrideVars, fixVars, nameVars, resolveVars, idVars, applyVars, verifiedVars, manualVars, mainVars, genVars>>

\* a run of main that finds no new match: save_matches raises, main re-raises
GenMainRaise ==
    /\ gen_pc = "main"
    /\ nOps < MaxGenRuns
    /\ MainMatches = <<>>
    /\ ledger' = MainLedger(ledger, ledgerExists, gen_names, find_matches)
    /\ ledgerOp' = "save_matches_raised"
    /\ nOps' = nOps + 1
    /\ UNCHANGED <<overrideVars, fixVars, nameVars, resolveVars, idVars, ledgerExists, applyVars, verifiedVars, manualVars, mainVars,
                   genVars>>

NextGenMain ==
    \/ GenMainSaved
    \/ GenMainRaise

\* the unique names of a table: two or three names, in any order
NameLists ==
    {l \in SeqsUpTo(GenNames, 3) :
        Len(l) >= 2 /\ \A i, j \in DOMAIN l : i # j => l[i] # l[j]}

\* scores a matcher returns, in hundredths: below the threshold, unlabelled,
\* just under 95, and labelled
RawScores == {8196, 8500, 9496, 9700}

\* the calls matcher.find_matches(name1, name2) the loops can make
MatcherCalls(names) ==
    {<<names[i], names[j]>> : i \in DOMAIN names, j \in DOMAIN names} \cap
    {q \in GenNames \X GenNames :
        \E i, j \in DOMAIN names : i < j /\ q = <<names[i], names[j]>>}

ExistingPairSets ==
    {S \in SUBSET {q \in GenNames \X GenNames : q[1] # q[2]} :
        Cardinality(S) <= MaxExistingPairs}

InitGenCall ==
    /\ gen_names \in NameLists
    /\ find_matches \in [MatcherCalls(gen_names) -> RawScores]
    /\ existing_pairs \in ExistingPairSets
    /\ emitted = <<>>
    /\ gen_pc = "ready"
    /\ IdleLedger
    /\ IdleApply
    /\ IdleVerified
    /\ IdleManual
    /\ IdleMain
    /\ IdleIds
    /\ IdleResolve
    /\ IdleName
    /\ IdleFix
    /\ IdleOverride

SpecGenCall == InitGenCall /\ [][NextGenCall]_vars

\* ledger files main can find: none, an empty one, or one earlier entry
GenInitialLedgers == {l \in InitialLedgers : Len(l) <= 1}

InitGenMain ==
    /\ gen_names \in NameLists
    /\ find_matches \in [MatcherCalls(gen_names) -> RawScores]
    /\ existing_pairs = {}
    /\ emitted = <<>>
    /\ gen_pc = "main"
    /\ ledgerExists \in BOOLEAN
    /\ ledger \in (IF ledgerExists THEN GenInitialLedgers ELSE {<<>>})
    /\ ledgerOp = "none"
    /\ nOps = 0
    /\ IdleApply
    /\ IdleVerified
    /\ IdleManual
    /\ IdleMain
    /\ IdleIds
    /\ IdleResolve
    /\ IdleName
    /\ IdleFix
    /\ IdleOverride

SpecGenMain == InitGenMain /\ [][NextGenMain]_vars

-----------------------------------------------------------------------------
(* Record ids: data_merging.ensure_record_ids and                          *)
(* phase2.6_manual_merge.assign_final_ids.  A RecordID is a sequence of    *)
(* characters; a table is its RecordID column, or no such column.          *)

MaxIdRows == 3          \* rows of the table handed to either function

DigitChars == <<"0", "1", "2", "3", "4", "5", "6", "7", "8", "9">>

IsDigit(c) == \E d \in DOMAIN DigitChars : DigitChars[d] = c

IsUpper(c) == \E u \in DOMAIN UpperChars : UpperChars[u] = c

DigitValue(c) == (CHOOSE d \in DOMAIN DigitChars : DigitChars[d] = c) - 1

\* str(i) for i >= 0
RECURSIVE Decimal(_)
Decimal(i) ==
    IF i < 10 THEN <<DigitChars[i + 1]>>
    ELSE Decimal(i \div 10) \o <<DigitChars[(i % 10) + 1]>>

\* f"{i:06d}": zero-padded to at least six characters
RECURSIVE ZeroPad(_, _)
ZeroPad(digits, width) ==
    IF Len(digits) >= width THEN digits ELSE ZeroPad(<<"0">> \o digits, width)

Format06d(i) == ZeroPad(Decimal(i), 6)

\* int(text) of a sequence of digits
RECURSIVE IntOf(_)
IntOf(digits) ==
    IF digits = <<>> THEN 0
    ELSE 10 * IntOf(SubSeq(digits, 1, Len(digits) - 1)) + DigitValue(digits[Len(digits)])

\* re.match(r'^[A-Z]+_\d{6}$', str(record_id)); a null prints as 'nan'
MatchesPattern(record_id) ==
    \E n \in 1..Len(record_id) :
        /\ \A i \in 1..n : IsUpper(record_id[i])
        /\ Len(record_id) = n + 7
        /\ record_id[n + 1] = "_"
        /\ \A i \in (n + 2)..(n + 7) : IsDigit(record_id[i])

\* Series.duplicated(): every occurrence of a value after its first
duplicated(ids) == [i \in DOMAIN ids |-> \E j \in 1..(i - 1) : ids[j] = ids[i]]

\* number of True cells of mask before position i
MaskRank(mask, i) == Cardinality({j \in 1..(i - 1) : mask[j]})

\* df.loc[mask, 'RecordID'] = [f"{prefix}{i:06d}" for i in range(mask.sum())]
Renumber(ids, mask, prefix) ==
    [i \in DOMAIN ids |->
        IF mask[i] THEN prefix \o Format06d(MaskRank(mask, i)) ELSE ids[i]]

FixInvalid(df, prefix) ==
    IF ~df.has_RecordID
    THEN [i \in DOMAIN df.RecordID |-> prefix \o Format06d(i - 1)]
    ELSE Renumber(df.RecordID,
                  [i \in DOMAIN df.RecordID |-> ~MatchesPattern(df.RecordID[i])],
                  prefix)

ensure_record_ids(df, prefix) ==
    LET fixed == FixInvalid(df, prefix)
    IN  Renumber(fixed, duplicated(fixed), prefix)

has_valid_id(record_id, id_prefix) ==
    /\ record_id # NaN
    /\ Len(record_id) = Len(id_prefix) + 6
    /\ SubSeq(record_id, 1, Len(id_prefix)) = id_prefix
    /\ \A i \in (Len(id_prefix) + 1)..Len(record_id) : IsDigit(record_id[i])

assign_final_ids(df, id_prefix) ==
    LET ids == IF df.has_RecordID THEN df.RecordID
               ELSE [i \in DOMAIN df.RecordID |-> <<>>]
        has_valid_id_mask == [i \in DOMAIN ids |-> has_valid_id(ids[i], id_prefix)]
        existing_nums == {IntOf(SubSeq(ids[i], Len(id_prefix) + 1, Len(ids[i]))) :
                             i \in {j \in DOMAIN ids : has_valid_id_mask[j]}}
        max_id_num == IF existing_nums = {} THEN 0
                      ELSE CHOOSE m \in existing_nums : \A x \in existing_nums : x <= m
        next_id == max_id_num + 1
        needs == [i \in DOMAIN ids |-> ~has_valid_id_mask[i]]
    IN  [i \in DOMAIN ids |->
            IF needs[i] THEN id_prefix \o Format06d(next_id + MaskRank(needs, i))
            ELSE ids[i]]

REC_ == <<"R", "E", "C", "_">>

FINAL_REC_ == <<"F", "I", "N", "A", "L", "_", "R", "E", "C", "_">>

\* main.py calls ensure_record_ids(merged_df, prefix='REC_')
EnsureRecordIds ==
    /\ id_pc = "ready"
    /\ id_df' = ensure_record_ids(id_input, REC_)
    /\ id_pc' = "ensured"
    /\ UNCHANGED <<overrideVars, fixVars, nameVars, resolveVars, id_input, ledgerVars, applyVars, verifiedVars, manualVars,
                   mainVars, genVars>>

\* phase2.6 main calls assign_final_ids(updated_df, id_prefix="FINAL_REC_")
AssignFinalIds ==
    /\ id_pc = "ready"
    /\ id_df' = assign_final_ids(id_input, FINAL_REC_)
    /\ id_pc' = "assigned"
    /\ UNCHANGED <<overrideVars, fixVars, nameVars, resolveVars, id_input, ledgerVars, applyVars, verifiedVars, manualVars,
                   mainVars, genVars>>

NextRecordIds ==
    \/ EnsureRecordIds
    \/ AssignFinalIds

\* the RecordID cells of the input tables: ids of the source prefixes, ids of
\* the final form, a malformed id and a null
IdCells ==
    {REC_ \o Format06d(0), REC_ \o Format06d(1),
     <<"O", "P", "S", "_">> \o Format06d(1),
     FINAL_REC_ \o Format06d(1), FINAL_REC_ \o Format06d(2),
     <<"7">>, NaN}

IdTables ==
    {[has_RecordID |-> TRUE, RecordID |-> ids] :
        ids \in SeqsUpTo(IdCells, MaxIdRows) \ {<<>>}}
    \cup {[has_RecordID |-> FALSE, RecordID |-> [i \in 1..n |-> NaN]] :
        n \in 1..MaxIdRows}

InitRecordIds ==
    /\ id_input \in IdTables
    /\ id_df = <<>>
    /\ id_pc = "ready"
    /\ IdleLedger
    /\ IdleApply
    /\ IdleVerified
    /\ IdleManual
    /\ IdleMain
    /\ IdleGen
    /\ IdleResolve
    /\ IdleName
    /\ IdleFix
    /\ IdleOverride

SpecRecordIds == InitRecordIds /\ [][NextRecordIds]_vars

-----------------------------------------------------------------------------
(* matching/library_consolidation.py: update_consolidated_matches run on   *)
(* the ledger file, next to the two operations that append to it.          *)

MaxLibraryLedger == 2   \* entries of the ledger file before the first operation

\* the string literals of library_consolidation.py
LIBRARY ==
    <<"l", "i", "b", "r", "a", "r", "y">>

BROOKLYN ==
    <<"b", "r", "o", "o", "k", "l", "y", "n">>

LAW ==
    <<"l", "a", "w">>

NYPL ==
    <<"n", "y", "p", "l">>

NEW_YORK_PUBLIC ==
    <<"n", "e", "w", " ", "y", "o", "r", "k", " ", "p", "u", "b", "l", "i", "c">>

QUEENS_BOROUGH_PUBLIC ==
    <<"q", "u", "e", "e", "n", "s", " ", "b", "o", "r", "o", "u", "g", "h", " ", "p", "u", "b", "l", "i", "c">>

QUEENS_PUBLIC ==
    <<"q", "u", "e", "e", "n", "s", " ", "p", "u", "b", "l", "i", "c">>

QUEENS_LIBRARY ==
    <<"q", "u", "e", "e", "n", "s", " ", "l", "i", "b", "r", "a", "r", "y">>

BROOKLYN_PUBLIC_LIBRARY ==
    <<"b", "r", "o", "o", "k", "l", "y", "n", " ", "p", "u", "b", "l", "i", "c", " ", "l", "i", "b", "r", "a", "r", "y">>

NEW_YORK_PUBLIC_LIBRARY ==
    <<"n", "e", "w", " ", "y", "o", "r", "k", " ", "p", "u", "b", "l", "i", "c", " ", "l", "i", "b", "r", "a", "r", "y">>

QUEENS_PUBLIC_LIBRARY ==
    <<"q", "u", "e", "e", "n", "s", " ", "p", "u", "b", "l", "i", "c", " ", "l", "i", "b", "r", "a", "r", "y">>

BOARD_OF_TRUSTEES ==
    <<"b", "o", "a", "r", "d", " ", "o", "f", " ", "t", "r", "u", "s", "t", "e", "e", "s">>

PUBLIC ==
    <<"p", "u", "b", "l", "i", "c">>

BOROUGH ==
    <<"b", "o", "r", "o", "u", "g", "h">>

SYSTEM ==
    <<"s", "y", "s", "t", "e", "m">>

BRANCH ==
    <<"b", "r", "a", "n", "c", "h">>

DIVISION ==
    <<"d", "i", "v", "i", "s", "i", "o", "n">>

OF_THE ==
    <<"o", "f", " ", "t", "h", "e">>

IsWordChar(c) ==
    \/ \E i \in DOMAIN LowerChars : LowerChars[i] = c
    \/ \E i \in DOMAIN UpperChars : UpperChars[i] = c
    \/ IsDigit(c)
    \/ c = "_"

\* re.sub(r'\bphrase\b', '', name) for a phrase that begins and ends with a
\* word character; prevWord tells whether the character before s is one
RECURSIVE SubPhrase(_, _, _)
SubPhrase(s, phrase, prevWord) ==
    IF s = <<>> THEN <<>>
    ELSE IF /\ ~prevWord
            /\ Len(s) >= Len(phrase)
            /\ SubSeq(s, 1, Len(phrase)) = phrase
            /\ (Len(s) = Len(phrase) \/ ~IsWordChar(s[Len(phrase) + 1]))
         THEN SubPhrase(SubSeq(s, Len(phrase) + 1, Len(s)), phrase, TRUE)
         ELSE <<Head(s)>> \o SubPhrase(Tail(s), phrase, IsWordChar(Head(s)))

\* re.sub(r'\(.*?\)', '', name): each "(" up to the next ")"
RECURSIVE SubParens(_)
SubParens(s) ==
    IF s = <<>> THEN <<>>
    ELSE IF Head(s) = "(" /\ \E i \in 2..Len(s) : s[i] = ")"
         THEN LET close == CHOOSE i \in 2..Len(s) :
                               s[i] = ")" /\ \A j \in 2..(i - 1) : s[j] # ")"
              IN  SubParens(SubSeq(s, close + 1, Len(s)))
         ELSE <<Head(s)>> \o SubParens(Tail(s))

\* re.sub(r'[^\w\s]', ' ', name)
SubPunctuation(s) ==
    [i \in DOMAIN s |-> IF IsWordChar(s[i]) \/ s[i] = " " THEN s[i] ELSE " "]

\* " ".join(name.split())
RECURSIVE JoinSplit(_)
JoinSplit(s) ==
    LET t == strip(s)
    IN  IF Len(t) <= 1 THEN t
        ELSE IF t[1] = " " /\ t[2] = " " THEN JoinSplit(Tail(t))
        ELSE <<t[1]>> \o (IF t[2] = " " THEN <<" ">> \o JoinSplit(SubSeq(t, 3, Len(t)))
                          ELSE JoinSplit(Tail(t)))

phrases_to_remove == <<
    BOARD_OF_TRUSTEES,
    PUBLIC,
    BOROUGH,
    SYSTEM,
    BRANCH,
    DIVISION,
    OF_THE >>

RECURSIVE RemovePhrases(_, _)
RemovePhrases(name, phrases) ==
    IF phrases = <<>> THEN name
    ELSE RemovePhrases(SubPhrase(name, Head(phrases), FALSE), Tail(phrases))

\* is_library_name (lines 7-13)
is_library_name(name) ==
    IF isna(name) THEN FALSE ELSE Contains(lower(name), LIBRARY)

\* normalize_library_name (lines 15-52)
normalize_library_name(name0) ==
    IF isna(name0) THEN <<>>
    ELSE LET name == strip(lower(name0))
         IN  IF Contains(name, BROOKLYN) /\ Contains(name, LIBRARY)
             THEN BROOKLYN_PUBLIC_LIBRARY
             ELSE IF Contains(name, NEW_YORK_PUBLIC) \/ Contains(name, NYPL)
             THEN NEW_YORK_PUBLIC_LIBRARY
             ELSE IF \/ Contains(name, QUEENS_BOROUGH_PUBLIC)
                     \/ Contains(name, QUEENS_PUBLIC)
                     \/ Contains(name, QUEENS_LIBRARY)
             THEN QUEENS_PUBLIC_LIBRARY
             ELSE JoinSplit(SubPunctuation(SubParens(
                      RemovePhrases(name, phrases_to_remove))))

\* the text of the ledger names that are library names; every other ledger
\* name of this model (new_matches, GenNames) has no "library" in it, and
\* line 61 asks nothing else of it
LibraryNameText ==
    [n \in {"brooklyn library", "brooklyn public library",
            "law library", "Public Law Library (NYC)", "queens library"} |->
        CASE n = "brooklyn library" -> BROOKLYN \o <<" ">> \o LIBRARY
          [] n = "brooklyn public library" -> BROOKLYN_PUBLIC_LIBRARY
          [] n = "law library" -> LAW \o <<" ">> \o LIBRARY
          [] n = "Public Law Library (NYC)" ->
                 <<"P">> \o Tail(PUBLIC) \o <<" ", "L">> \o Tail(LAW)
                 \o <<" ", "L">> \o Tail(LIBRARY) \o <<" ", "(", "N", "Y", "C", ")">>
          [] n = "queens library" -> QUEENS_LIBRARY]

NameText(n) == IF n \in DOMAIN LibraryNameText THEN LibraryNameText[n] ELSE <<>>

\* lines 71-85 on one row of the ledger
ConsolidateRow(row) ==
    LET source_norm == normalize_library_name(NameText(row.Source))
        target_norm == normalize_library_name(NameText(row.Target))
    IN  IF /\ is_library_name(NameText(row.Source))
           /\ is_library_name(NameText(row.Target))
           /\ source_norm = target_norm
           /\ source_norm # <<>>
        THEN [row EXCEPT
                 !.Label = "Match",
                 !.SourceID = IF row.SourceID = NoneID /\ row.TargetID # NoneID
                              THEN row.TargetID ELSE row.SourceID,
                 !.TargetID = IF row.SourceID = NoneID /\ row.TargetID # NoneID
                              THEN row.TargetID
                              ELSE IF row.SourceID # NoneID THEN row.SourceID
                              ELSE row.TargetID]
        ELSE row

consolidate_library_matches(df) == [i \in DOMAIN df |-> ConsolidateRow(df[i])]

LibraryPairs ==
    {<<"brooklyn library", "brooklyn public library">>,
     <<"law library", "Public Law Library (NYC)">>,
     <<"queens library", "law library">>,
     <<"tax commission", "law library">>}

\* lists save_matches is handed here: one freshly generated match of a pair
\* of the ledger's names, in either order
LibraryMatchLists ==
    {<<Entry(src, tgt, 970, "Match", "REC_000001", "REC_000002")>> :
        <<src, tgt>> \in LibraryPairs \cup {<<p[2], p[1]>> : p \in LibraryPairs}}

\* update_consolidated_matches (lines 108-122): read, consolidate, write back
UpdateConsolidatedMatches ==
    /\ nOps < MaxLedgerOps
    /\ ledgerExists
    /\ ledger' = consolidate_library_matches(ledger)
    /\ ledgerOp' = "consolidate_library_matches"
    /\ nOps' = nOps + 1
    /\ UNCHANGED <<overrideVars, fixVars, nameVars, resolveVars, idVars, genVars, mainVars, ledgerExists, applyVars, verifiedVars,
                   manualVars>>

\* update_consolidated_matches when the file cannot be read (lines 116-118)
UpdateConsolidatedMissing ==
    /\ nOps < MaxLedgerOps
    /\ ~ledgerExists
    /\ ledgerOp' = "consolidate_library_matches_no_file"
    /\ nOps' = nOps + 1
    /\ UNCHANGED <<overrideVars, fixVars, nameVars, resolveVars, idVars, genVars, mainVars, ledger, ledgerExists, applyVars,
                   verifiedVars, manualVars>>

NextLibrary ==
    \/ UpdateConsolidatedMatches
    \/ UpdateConsolidatedMissing
    \/ \E m \in LibraryMatchLists : SaveMatchesExisting(m)
    \/ \E m \in LibraryMatchLists : SaveMatchesNew(m)
    \/ AddManualMatches

LibraryEntries ==
    {Entry(p[1], p[2], 850, label, sid, tid) :
        p \in LibraryPairs, label \in {"", "Match", "NonMatch"},
        sid \in {NoneID, "REC_000001"}, tid \in {NoneID, "REC_000002"}}

LibraryLedgers ==
    {l \in SeqsUpTo(LibraryEntries, MaxLibraryLedger) \ {<<>>} : ~HasDuplicatePair(l)}

InitLibrary ==
    /\ ledgerExists \in BOOLEAN
    /\ ledger \in IF ledgerExists THEN LibraryLedgers ELSE {<<>>}
    /\ ledgerOp = "none"
    /\ nOps = 0
    /\ IdleApply
    /\ IdleVerified
    /\ IdleManual
    /\ IdleMain
    /\ IdleIds
    /\ IdleGen
    /\ IdleResolve
    /\ IdleName
    /\ IdleFix
    /\ IdleOverride

SpecLibrary == InitLibrary /\ [][NextLibrary]_vars

-----------------------------------------------------------------------------
(* conflict_resolution_fields.py: resolve_conflict and resolve_po_name.    *)
(* A row is a function from column names to cells; a status is "match",    *)
(* "conflict" (with the values it lists) or "error".                       *)

\* str(value): a null cell prints as 'nan'
str(v) == IF isna(v) THEN <<"n", "a", "n">> ELSE v

\* row.get(col, '')
RowGet(row, col) == IF col \in DOMAIN row THEN row[col] ELSE <<>>

PONameCols == {"Ops_PrincipalOfficerName", "HOO_PrincipalOfficerName"}

\* resolve_po_name (lines 4-35)
resolve_po_name(row) ==
    LET ops_name == strip(str(RowGet(row, "Ops_PrincipalOfficerName")))
        hoo_name == strip(str(RowGet(row, "HOO_PrincipalOfficerName")))
        suggested == IF ops_name # <<>> THEN ops_name ELSE hoo_name
        status == IF ops_name = <<>> /\ hoo_name = <<>> THEN [kind |-> "match", values |-> <<>>]
                  ELSE IF ops_name = <<>> \/ hoo_name = <<>> THEN [kind |-> "match", values |-> <<>>]
                  ELSE IF lower(ops_name) = lower(hoo_name) THEN [kind |-> "match", values |-> <<>>]
                  ELSE [kind |-> "conflict", values |-> <<ops_name, hoo_name>>]
    IN  [status |-> status, suggested |-> suggested]

\* lines 95-101: the stripped, non-blank values of the non-null candidates
RECURSIVE GatherValues(_, _)
GatherValues(row, cols) ==
    IF cols = <<>> THEN <<>>
    ELSE LET raw_val == strip(str(row[Head(cols)]))
         IN  (IF notna(row[Head(cols)]) /\ raw_val # <<>> THEN <<raw_val>> ELSE <<>>)
             \o GatherValues(row, Tail(cols))

\* lines 113-121: the first raw value of each normalized value
DistinctValues(values) ==
    SelectSeq([i \in DOMAIN values |->
                  IF \E j \in 1..(i - 1) : lower(values[j]) = lower(values[i])
                  THEN NaN ELSE values[i]],
              notna)

\* lines 157-167: the first non-blank value in priority order
RECURSIVE Suggested(_, _)
Suggested(row, cols) ==
    IF cols = <<>> THEN <<>>
    ELSE IF notna(row[Head(cols)]) /\ strip(str(row[Head(cols)])) # <<>>
         THEN strip(str(row[Head(cols)]))
         ELSE Suggested(row, Tail(cols))

\* resolve_conflict (lines 37-175)
resolve_conflict(row, candidate_cols, priority_order) ==
    IF Range(candidate_cols) = PONameCols THEN resolve_po_name(row)
    ELSE IF \E i \in DOMAIN candidate_cols : candidate_cols[i] \notin DOMAIN row
    THEN [status |-> [kind |-> "error", values |-> <<>>], suggested |-> <<>>]
    ELSE LET distinct_values == DistinctValues(GatherValues(row, candidate_cols))
         IN  [status |-> IF Len(distinct_values) <= 1
                         THEN [kind |-> "match", values |-> <<>>]
                         ELSE [kind |-> "conflict", values |-> distinct_values],
              suggested |-> Suggested(row, priority_order)]

ResolveConflict ==
    /\ cr_pc = "ready"
    /\ cr_result' = resolve_conflict(cr_row, cr_candidate_cols, cr_priority_order)
    /\ cr_pc' = "returned"
    /\ UNCHANGED <<overrideVars, fixVars, nameVars, cr_row, cr_candidate_cols, cr_priority_order, ledgerVars, applyVars,
                   verifiedVars, manualVars, mainVars, genVars, idVars>>

NextResolve == ResolveConflict

\* the cells of a row: null, blank, and three names of which two differ
\* only in case and surrounding whitespace
ConflictCells == {NaN, <<" ">>, <<"A", "l">>, <<" ", "a", "l">>, <<"B", "o">>}

POTitleCols == {"Ops_PrincipalOfficerTitle", "HOO_PrincipalOfficerTitle"}

\* the column lists main.py hands over: po_name_cols in table order with the
\* priority order of lines 473-477, po_title_cols twice (line 275)
ColumnLists ==
    {<<"Ops_PrincipalOfficerName", "HOO_PrincipalOfficerName">>,
     <<"HOO_PrincipalOfficerName", "Ops_PrincipalOfficerName">>,
     <<"Ops_PrincipalOfficerTitle", "HOO_PrincipalOfficerTitle">>,
     <<"HOO_PrincipalOfficerTitle", "Ops_PrincipalOfficerTitle">>}

InitResolve ==
    /\ cr_row \in [PONameCols \cup POTitleCols -> ConflictCells]
    /\ cr_candidate_cols \in ColumnLists
    /\ cr_priority_order \in {p \in ColumnLists : Range(p) = Range(cr_candidate_cols)}
    /\ cr_result = <<>>
    /\ cr_pc = "ready"
    /\ IdleLedger
    /\ IdleApply
    /\ IdleVerified
    /\ IdleManual
    /\ IdleMain
    /\ IdleGen
    /\ IdleIds
    /\ IdleName
    /\ IdleFix
    /\ IdleOverride

SpecResolve == InitResolve /\ [][NextResolve]_vars

-----------------------------------------------------------------------------
(* preprocessing/data_normalization.py: standardize_name, applied to its   *)
(* own result.                                                             *)

MaxNameLen == 4             \* characters of a name drawn from NameAlphabet
MaxStandardizeCalls == 2    \* calls of standardize_name per behaviour

\* re.sub(r'\bphrase\b', repl, name) for a phrase that begins and ends with
\* a word character
RECURSIVE ReplacePhrase(_, _, _, _)
ReplacePhrase(s, phrase, repl, prevWord) ==
    IF s = <<>> THEN <<>>
    ELSE IF /\ ~prevWord
            /\ Len(s) >= Len(phrase)
            /\ SubSeq(s, 1, Len(phrase)) = phrase
            /\ (Len(s) = Len(phrase) \/ ~IsWordChar(s[Len(phrase) + 1]))
         THEN repl \o ReplacePhrase(SubSeq(s, Len(phrase) + 1, Len(s)), phrase, repl, TRUE)
         ELSE <<Head(s)>> \o ReplacePhrase(Tail(s), phrase, repl, IsWordChar(Head(s)))

\* name.replace(old, new) for a one-character old
RECURSIVE ReplaceChar(_, _, _)
ReplaceChar(s, old, new) ==
    IF s = <<>> THEN <<>>
    ELSE (IF Head(s) = old THEN new ELSE <<Head(s)>>) \o ReplaceChar(Tail(s), old, new)

\* re.sub(r'[^\w\s]', '', name)
RemovePunctuation(s) == SelectSeq(s, LAMBDA c : IsWordChar(c) \/ c = " ")

\* name.split()
RECURSIVE Words(_, _)
Words(s, acc) ==
    IF s = <<>> THEN (IF acc = <<>> THEN <<>> ELSE <<acc>>)
    ELSE IF Head(s) = " "
         THEN (IF acc = <<>> THEN <<>> ELSE <<acc>>) \o Words(Tail(s), <<>>)
         ELSE Words(Tail(s), Append(acc, Head(s)))

\* ' '.join(words)
RECURSIVE JoinWords(_)
JoinWords(words) ==
    IF words = <<>> THEN <<>>
    ELSE IF Len(words) = 1 THEN words[1]
    ELSE words[1] \o <<" ">> \o JoinWords(Tail(words))

abbreviations == <<
    <<<<"d", "e", "p", "t">>,
      <<"d", "e", "p", "a", "r", "t", "m", "e", "n", "t">>>>,
    <<<<"g", "o", "v", "t">>,
      <<"g", "o", "v", "e", "r", "n", "m", "e", "n", "t">>>>,
    <<<<"s", "v", "c">>,
      <<"s", "e", "r", "v", "i", "c", "e", "s">>>>,
    <<<<"c", "o", "m", "m">>,
      <<"c", "o", "m", "m", "i", "s", "s", "i", "o", "n">>>>,
    <<<<"a", "d", "m", "i", "n">>,
      <<"a", "d", "m", "i", "n", "i", "s", "t", "r", "a", "t", "i", "o", "n">>>>,
    <<<<"m", "g", "m", "t">>,
      <<"m", "a", "n", "a", "g", "e", "m", "e", "n", "t">>>>,
    <<<<"d", "e", "v">>,
      <<"d", "e", "v", "e", "l", "o", "p", "m", "e", "n", "t">>>>,
    <<<<"e", "d">>,
      <<"e", "d", "u", "c", "a", "t", "i", "o", "n">>>>,
    <<<<"e", "n", "g">>,
      <<"e", "n", "g", "i", "n", "e", "e", "r", "i", "n", "g">>>>,
    <<<<"e", "n", "v">>,
      <<"e", "n", "v", "i", "r", "o", "n", "m", "e", "n", "t", "a", "l">>>>,
    <<<<"h", "r">>,
      <<"h", "u", "m", "a", "n", " ", "r", "e", "s", "o", "u", "r", "c", "e", "s">>>>,
    <<<<"a", "c", "a", "d">>,
      <<"a", "c", "a", "d", "e", "m", "y">>>>,
    <<<<"c", "u", "n", "y">>,
      <<"c", "i", "t", "y", " ", "u", "n", "i", "v", "e", "r", "s", "i", "t", "y", " ", "n", "e", "w", " ", "y", "o", "r", "k">>>> >>

\* abbreviations.get(word, word)
Expand(word) ==
    IF \E i \in DOMAIN abbreviations : abbreviations[i][1] = word
    THEN abbreviations[CHOOSE i \in DOMAIN abbreviations : abbreviations[i][1] = word][2]
    ELSE word

stopwords == {
    <<"t", "h", "e">>,
    <<"f", "o", "r">>,
    <<"t", "o">>,
    <<"a">>,
    <<"i", "n">>,
    <<"o", "n">>}

\* standardize_name (lines 3-67); a value that is not a str gives ''
standardize_name(name0) ==
    IF isna(name0) THEN <<>>
    ELSE LET lowered == lower(name0)
             nyc == ReplacePhrase(lowered, <<"n", "y", "c">>,
                                  <<"n", "e", "w", " ", "y", "o", "r", "k", " ", "c", "i", "t", "y">>, FALSE)
             anded == ReplaceChar(ReplaceChar(nyc, "+", <<"a", "n", "d">>),
                                  "&", <<"a", "n", "d">>)
             cleaned == JoinWords(Words(RemovePunctuation(SubParens(anded)), <<>>))
             words == Words(cleaned, <<>>)
             expanded == JoinWords([i \in DOMAIN words |-> Expand(words[i])])
             kept == SelectSeq(Words(expanded, <<>>), LAMBDA w : w \notin stopwords)
         IN  strip(JoinWords(kept))

\* name = standardize_name(name)
StandardizeName ==
    /\ sn_calls < MaxStandardizeCalls
    /\ sn_prev' = sn_name
    /\ sn_name' = standardize_name(sn_name)
    /\ sn_calls' = sn_calls + 1
    /\ UNCHANGED <<overrideVars, fixVars, ledgerVars, applyVars, verifiedVars, manualVars, mainVars, genVars,
                   idVars, resolveVars>>

NextName == StandardizeName

NameAlphabet == {"N", "y", "c", ".", " "}

\* whole names that reach the abbreviations, the stopwords, the parentheses
\* and the '&'
SampleNames ==
    {<<"D", "e", "p", "t", " ", "o", "f", " ", "E", "d", " ", "(", "D", "O", "E", ")">>,
     <<"t", "h", "e", " ", "h", "r", " ", "a", "d", "m", "i", "n">>,
     <<"N", "Y", "C", " ", "&", " ", "C", "o", ".">>,
     <<"M", "a", "y", "o", "r", "'", "s", " ", "O", "f", "f", "i", "c", "e", " ", "f", "o", "r", " ", "N", "Y", "C">>}

InitName ==
    /\ sn_name \in SeqsUpTo(NameAlphabet, MaxNameLen) \cup SampleNames \cup {NaN}
    /\ sn_prev = <<>>
    /\ sn_calls = 0
    /\ IdleLedger
    /\ IdleApply
    /\ IdleVerified
    /\ IdleManual
    /\ IdleMain
    /\ IdleGen
    /\ IdleIds
    /\ IdleResolve
    /\ IdleFix
    /\ IdleOverride

SpecName == InitName /\ [][NextName]_vars

-----------------------------------------------------------------------------
(* fix_match_ids.py: normalize_name, generate_name_variations,             *)
(* fuzzy_match_score and fix_match_ids.                                    *)

MaxFixMatches == 2      \* entries of the ledger handed to fix_match_ids
MaxNameToId == 2        \* keys of name_to_id

\* name.replace(old, new): non-overlapping occurrences, left to right
RECURSIVE ReplaceAll(_, _, _)
ReplaceAll(s, old, new) ==
    IF Len(s) < Len(old) THEN s
    ELSE IF SubSeq(s, 1, Len(old)) = old
         THEN new \o ReplaceAll(SubSeq(s, Len(old) + 1, Len(s)), old, new)
         ELSE <<Head(s)>> \o ReplaceAll(Tail(s), old, new)

\* re.sub(r'[^\w\s-]', ' ', name)
SubPunctuationKeepHyphen(s) ==
    [i \in DOMAIN s |-> IF IsWordChar(s[i]) \/ s[i] = " " \/ s[i] = "-" THEN s[i] ELSE " "]

\* lines 43-69; 'coord' is given twice and the later value wins
org_terms == <<
    <<<<"d", "e", "p", "t">>, <<"d", "e", "p", "a", "r", "t", "m", "e", "n", "t">>>>,
    <<<<"c", "o", "m", "m">>, <<"c", "o", "m", "m", "i", "s", "s", "i", "o", "n">>>>,
    <<<<"a", "u", "t", "h">>, <<"a", "u", "t", "h", "o", "r", "i", "t", "y">>>>,
    <<<<"a", "d", "m", "i", "n">>, <<"a", "d", "m", "i", "n", "i", "s", "t", "r", "a", "t", "i", "o", "n">>>>,
    <<<<"c", "o", "r", "p">>, <<"c", "o", "r", "p", "o", "r", "a", "t", "i", "o", "n">>>>,
    <<<<"d", "e", "v">>, <<"d", "e", "v", "e", "l", "o", "p", "m", "e", "n", "t">>>>,
    <<<<"s", "v", "c", "s">>, <<"s", "e", "r", "v", "i", "c", "e", "s">>>>,
    <<<<"s", "v", "c">>, <<"s", "e", "r", "v", "i", "c", "e">>>>,
    <<<<"t", "e", "c", "h">>, <<"t", "e", "c", "h", "n", "o", "l", "o", "g", "y">>>>,
    <<<<"m", "g", "m", "t">>, <<"m", "a", "n", "a", "g", "e", "m", "e", "n", "t">>>>,
    <<<<"o", "p", "s">>, <<"o", "p", "e", "r", "a", "t", "i", "o", "n", "s">>>>,
    <<<<"b", "d">>, <<"b", "o", "a", "r", "d">>>>,
    <<<<"d", "i", "v">>, <<"d", "i", "v", "i", "s", "i", "o", "n">>>>,
    <<<<"i", "n", "s", "t">>, <<"i", "n", "s", "t", "i", "t", "u", "t", "e">>>>,
    <<<<"o", "r", "g">>, <<"o", "r", "g", "a", "n", "i", "z", "a", "t", "i", "o", "n">>>>,
    <<<<"o", "f", "c">>, <<"o", "f", "f", "i", "c", "e">>>>,
    <<<<"c", "t", "r">>, <<"c", "e", "n", "t", "e", "r">>>>,
    <<<<"s", "y", "s">>, <<"s", "y", "s", "t", "e", "m">>>>,
    <<<<"d", "i", "s", "t">>, <<"d", "i", "s", "t", "r", "i", "c", "t">>>>,
    <<<<"c", "o", "o", "r", "d">>, <<"c", "o", "o", "r", "d", "i", "n", "a", "t", "i", "o", "n">>>>,
    <<<<"c", "n", "c", "l">>, <<"c", "o", "u", "n", "c", "i", "l">>>>,
    <<<<"c", "m", "t", "e">>, <<"c", "o", "m", "m", "i", "t", "t", "e", "e">>>>,
    <<<<"a", "s", "s", "o", "c">>, <<"a", "s", "s", "o", "c", "i", "a", "t", "i", "o", "n">>>>,
    <<<<"f", "d", "n">>, <<"f", "o", "u", "n", "d", "a", "t", "i", "o", "n">>>> >>

\* org_terms.get(word, word)
OrgTerm(word) ==
    IF \E i \in DOMAIN org_terms : org_terms[i][1] = word
    THEN org_terms[CHOOSE i \in DOMAIN org_terms : org_terms[i][1] = word][2]
    ELSE word

\* lines 76-86: <<term, preposition>> of r'term\s+preposition\s+(\w+)'
patterns == <<
    <<<<"d", "e", "p", "a", "r", "t", "m", "e", "n", "t">>, <<"o", "f">>>>,
    <<<<"o", "f", "f", "i", "c", "e">>, <<"o", "f">>>>,
    <<<<"c", "o", "m", "m", "i", "s", "s", "i", "o", "n">>, <<"o", "n">>>>,
    <<<<"b", "o", "a", "r", "d">>, <<"o", "f">>>>,
    <<<<"d", "i", "v", "i", "s", "i", "o", "n">>, <<"o", "f">>>>,
    <<<<"c", "e", "n", "t", "e", "r">>, <<"f", "o", "r">>>>,
    <<<<"s", "y", "s", "t", "e", "m">>, <<"o", "f">>>>,
    <<<<"c", "o", "m", "m", "i", "t", "t", "e", "e">>, <<"o", "n">>>>,
    <<<<"a", "u", "t", "h", "o", "r", "i", "t", "y">>, <<"f", "o", "r">>>> >>

\* length of the run of word characters at the head of s
RECURSIVE WordRun(_)
WordRun(s) == IF s = <<>> \/ ~IsWordChar(Head(s)) THEN 0 ELSE 1 + WordRun(Tail(s))

\* re.sub(r'term\s+prep\s+(\w+)', r'\1 term', name) on a name whose words
\* are separated by single spaces (line 73)
RECURSIVE SubPattern(_, _)
SubPattern(s, pattern) ==
    LET prefix == pattern[1] \o <<" ">> \o pattern[2] \o <<" ">>
        rest == SubSeq(s, Len(prefix) + 1, Len(s))
    IN  IF s = <<>> THEN <<>>
        ELSE IF /\ Len(s) > Len(prefix)
                /\ SubSeq(s, 1, Len(prefix)) = prefix
                /\ WordRun(rest) > 0
             THEN SubSeq(rest, 1, WordRun(rest)) \o <<" ">> \o pattern[1]
                  \o SubPattern(SubSeq(rest, WordRun(rest) + 1, Len(rest)), pattern)
             ELSE <<Head(s)>> \o SubPattern(Tail(s), pattern)

RECURSIVE SubPatterns(_, _)
SubPatterns(name, pats) ==
    IF pats = <<>> THEN name
    ELSE SubPatterns(SubPattern(name, Head(pats)), Tail(pats))

\* normalize_name (lines 21-91)
normalize_name(name0) ==
    IF isna(name0) THEN <<>>
    ELSE LET lowered == lower(name0)
             substituted ==
                 ReplaceAll(ReplaceAll(ReplaceChar(lowered, "&", <<"a", "n", "d">>),
                                       <<"n", "y", "c">>, <<"n", "e", "w", " ", "y", "o", "r", "k", " ", "c", "i", "t", "y">>),
                            <<"n", "y">>, <<"n", "e", "w", " ", "y", "o", "r", "k">>)
             cleaned == JoinWords(Words(SubPunctuationKeepHyphen(SubParens(substituted)),
                                        <<>>))
             words == Words(cleaned, <<>>)
             named == JoinWords([i \in DOMAIN words |-> OrgTerm(words[i])])
         IN  strip(SubPatterns(named, patterns))

\* lines 118: the terms generate_name_variations reverses around
reversal_terms == <<
    <<"d", "e", "p", "a", "r", "t", "m", "e", "n", "t">>,
    <<"o", "f", "f", "i", "c", "e">>,
    <<"c", "o", "m", "m", "i", "s", "s", "i", "o", "n">>,
    <<"b", "o", "a", "r", "d">>,
    <<"d", "i", "v", "i", "s", "i", "o", "n">>,
    <<"c", "e", "n", "t", "e", "r">>,
    <<"s", "y", "s", "t", "e", "m">>,
    <<"c", "o", "m", "m", "i", "t", "t", "e", "e">>,
    <<"a", "u", "t", "h", "o", "r", "i", "t", "y">> >>

\* lines 119-125: the two reversals around the first occurrence of term
Reversals(words, term) ==
    IF \A i \in DOMAIN words : words[i] # term THEN {}
    ELSE LET idx == CHOOSE i \in DOMAIN words :
                        words[i] = term /\ \A j \in 1..(i - 1) : words[j] # term
             before == JoinWords(SubSeq(words, 1, idx - 1))
             after == JoinWords(SubSeq(words, idx + 1, Len(words)))
         IN  {strip(term \o <<" ", "o", "f", " ">> \o before \o <<" ">> \o after),
              strip(before \o <<" ">> \o after \o <<" ">> \o term)}

\* generate_name_variations (lines 93-127): a set
generate_name_variations(name) ==
    {name,
     <<"o", "f", "f", "i", "c", "e", " ", "o", "f", " ">> \o name,
     <<"m", "a", "y", "o", "r", "s", " ", "o", "f", "f", "i", "c", "e", " ", "o", "f", " ">> \o name,
     <<"o", "f", "f", "i", "c", "e", " ", "o", "f", " ", "t", "h", "e", " ">> \o name,
     <<"d", "e", "p", "a", "r", "t", "m", "e", "n", "t", " ", "o", "f", " ">> \o name,
     <<"t", "h", "e", " ">> \o name,
     ReplaceAll(name, <<"t", "h", "e", " ">>, <<>>)}
    \cup (IF Contains(name, <<"-">>)
          THEN {ReplaceChar(name, "-", <<" ">>), ReplaceChar(name, "-", <<" ", "a", "n", "d", " ">>)}
          ELSE {})
    \cup (IF Contains(name, <<" ">>)
          THEN UNION {Reversals(Words(name, <<>>), reversal_terms[t]) :
                         t \in DOMAIN reversal_terms}
          ELSE {})

\* SequenceMatcher.find_longest_match: <<i, j, size>> of the longest block
\* common to a[alo+1..ahi] and b[blo+1..bhi], the earliest in a, then in b
LongestMatch(a, b, alo, ahi, blo, bhi) ==
    LET Blocks == {m \in ((alo + 1)..ahi) \X ((blo + 1)..bhi) \X (1..(ahi - alo)) :
                      /\ m[1] + m[3] - 1 <= ahi
                      /\ m[2] + m[3] - 1 <= bhi
                      /\ SubSeq(a, m[1], m[1] + m[3] - 1) = SubSeq(b, m[2], m[2] + m[3] - 1)}
    IN  IF Blocks = {} THEN <<0, 0, 0>>
        ELSE CHOOSE m \in Blocks :
                 \A o \in Blocks :
                     \/ m[3] > o[3]
                     \/ (m[3] = o[3] /\ m[1] < o[1])
                     \/ (m[3] = o[3] /\ m[1] = o[1] /\ m[2] <= o[2])

\* sum of the sizes of SequenceMatcher.get_matching_blocks
RECURSIVE MatchedChars(_, _, _, _, _, _)
MatchedChars(a, b, alo, ahi, blo, bhi) ==
    IF alo >= ahi \/ blo >= bhi THEN 0
    ELSE LET m == LongestMatch(a, b, alo, ahi, blo, bhi)
         IN  IF m[3] = 0 THEN 0
             ELSE m[3] + MatchedChars(a, b, alo, m[1] - 1, blo, m[2] - 1)
                       + MatchedChars(a, b, m[1] + m[3] - 1, ahi, m[2] + m[3] - 1, bhi)

\* fuzzy_match_score (lines 129-131) as the fraction <<2 * M, T>>
fuzzy_match_score(str1, str2) ==
    <<2 * MatchedChars(str1, str2, 0, Len(str1), 0, Len(str2)), Len(str1) + Len(str2)>>

\* score > fuzzy_threshold, 0.85
AboveThreshold(score) == score[2] > 0 /\ 100 * score[1] > 85 * score[2]

\* score > best_score
ScoreGreater(score, best) == score[1] * best[2] > best[1] * score[2]

Keys(name_to_id) == {name_to_id[i][1] : i \in DOMAIN name_to_id}

Lookup(name_to_id, key) ==
    name_to_id[CHOOSE i \in DOMAIN name_to_id : name_to_id[i][1] = key][2]

\* lines 201-207: the first key, in dict order, with the highest score above
\* the threshold; <<>> when there is none
RECURSIVE BestMatch(_, _, _, _, _)
BestMatch(name, name_to_id, i, best_match, best_score) ==
    IF i > Len(name_to_id) THEN best_match
    ELSE LET score == fuzzy_match_score(name, name_to_id[i][1])
         IN  IF AboveThreshold(score) /\ ScoreGreater(score, best_score)
             THEN BestMatch(name, name_to_id, i + 1, name_to_id[i][1], score)
             ELSE BestMatch(name, name_to_id, i + 1, best_match, best_score)

\* lines 180-215 (and 218-253): the ids the code can write for a side whose
\* id is missing.  The variations are a Python set of str, iterated in hash
\* order, so any variation that is a key can be the first one found.
FixedIds(side_name, name_to_id) ==
    LET name == normalize_name(side_name)
        found == generate_name_variations(name) \cap Keys(name_to_id)
        best_match == BestMatch(name, name_to_id, 1, <<>>, <<0, 1>>)
    IN  IF name \in Keys(name_to_id) THEN {Lookup(name_to_id, name)}
        ELSE IF found # {} THEN {Lookup(name_to_id, v) : v \in found}
        ELSE IF best_match # <<>> THEN {Lookup(name_to_id, best_match)}
        ELSE {NoneID}

\* lines 173-253 on one entry of the ledger
FixedRows(row, name_to_id) ==
    IF row.Label # "Match" THEN {row}
    ELSE IF row.SourceID = NoneID /\ row.TargetID = NoneID THEN {row}
    ELSE {[row EXCEPT !.SourceID = sid, !.TargetID = tid] :
             sid \in (IF row.SourceID = NoneID THEN FixedIds(row.Source, name_to_id)
                      ELSE {row.SourceID}),
             tid \in (IF row.TargetID = NoneID THEN FixedIds(row.Target, name_to_id)
                      ELSE {row.TargetID})}

\* the ledgers the loop of lines 173-253 can leave
RECURSIVE FixedLedgers(_, _)
FixedLedgers(df, name_to_id) ==
    IF df = <<>> THEN {<<>>}
    ELSE {<<r>> \o rest : r \in FixedRows(Head(df), name_to_id),
                           rest \in FixedLedgers(Tail(df), name_to_id)}

\* fix_match_ids (lines 163-258)
FixMatchIds ==
    /\ fm_pc = "ready"
    /\ fm_result' \in FixedLedgers(fm_matches_df, fm_name_to_id)
    /\ fm_pc' = "returned"
    /\ UNCHANGED <<overrideVars, fm_matches_df, fm_name_to_id, ledgerVars, applyVars, verifiedVars,
                   manualVars, mainVars, genVars, idVars, resolveVars, nameVars>>

NextFix == FixMatchIds

\* names of ledger entries
FixNames ==
    {<<"D", "e", "p", "t", " ", "o", "f", " ", "E", "d">>,
     <<"P", "a", "r", "k", "s">>,
     <<"E", "d", " ", "D", "e", "p", "a", "r", "t", "m", "n", "t">>}

\* keys of name_to_id: normalized names and variations of them
FixKeys ==
    {<<"e", "d", " ", "d", "e", "p", "a", "r", "t", "m", "e", "n", "t">>,
     <<"o", "f", "f", "i", "c", "e", " ", "o", "f", " ", "p", "a", "r", "k", "s">>,
     <<"t", "h", "e", " ", "p", "a", "r", "k", "s">>}

FixPairs ==
    {<<<<"D", "e", "p", "t", " ", "o", "f", " ", "E", "d">>, <<"E", "d", " ", "D", "e", "p", "a", "r", "t", "m", "n", "t">>>>,
     <<<<"P", "a", "r", "k", "s">>, <<"D", "e", "p", "t", " ", "o", "f", " ", "E", "d">>>>,
     <<<<"E", "d", " ", "D", "e", "p", "a", "r", "t", "m", "n", "t">>, <<"P", "a", "r", "k", "s">>>>}

FixEntries ==
    {Entry(p[1], p[2], 1000, label, sid, tid) :
        p \in FixPairs, label \in {"Match", ""},
        sid \in {NoneID, "REC_000001"}, tid \in {NoneID, "REC_000002"}}

NameToIds ==
    {d \in SeqsUpTo(FixKeys \X {"OPS_000003", "HOO_000004"}, MaxNameToId) :
        \A i, j \in DOMAIN d : d[i][1] = d[j][1] => i = j}

InitFix ==
    /\ fm_matches_df \in SeqsUpTo(FixEntries, MaxFixMatches) \ {<<>>}
    /\ fm_name_to_id \in NameToIds
    /\ fm_result = <<>>
    /\ fm_pc = "ready"
    /\ IdleLedger
    /\ IdleApply
    /\ IdleVerified
    /\ IdleManual
    /\ IdleMain
    /\ IdleGen
    /\ IdleIds
    /\ IdleResolve
    /\ IdleName
    /\ IdleOverride

SpecFix == InitFix /\ [][NextFix]_vars

-----------------------------------------------------------------------------
(* phase2.6_manual_merge.py main, first two steps: add_new_records and      *)
(* apply_single_record_updates.  A Notes cell is null, text that is not    *)
(* JSON, or a JSON object, here a function from field names to values.     *)

MaxSingleOverrides == 2   \* rows of the manual overrides file
MaxOverrideRows == 2      \* rows of the input dataset

OverrideRow(rid, name, alt) == [RecordID |-> rid, Name |-> name, AlternateNames |-> alt]

NotesNull == [kind |-> "nan", attrs |-> <<>>]
NotesInvalid == [kind |-> "invalid", attrs |-> <<>>]
NotesJson(attrs) == [kind |-> "json", attrs |-> attrs]

\* overrides_df[overrides_df['SecondaryRecordID'].isna()]
BlankSecondary(overrides) ==
    {i \in DOMAIN overrides : overrides[i].SecondaryRecordID = NoneID}

\* lines 539-541: ids of blank-secondary rows that the table does not hold
new_record_ids(df, overrides) ==
    {overrides[i].PrimaryRecordID : i \in BlankSecondary(overrides)}
    \ {df[r].RecordID : r \in DOMAIN df}

\* line 554: overrides_df[overrides_df['PrimaryRecordID'] == record_id].iloc[0]
FirstOverrideOf(overrides, record_id) ==
    CHOOSE i \in DOMAIN overrides :
        /\ overrides[i].PrimaryRecordID = record_id
        /\ \A j \in 1..(i - 1) : overrides[j].PrimaryRecordID # record_id

\* lines 557-563 and 565-572: the ids whose record can be created
Addable(df, overrides) ==
    {id \in new_record_ids(df, overrides) :
        overrides[FirstOverrideOf(overrides, id)].Notes.kind = "json"}

\* lines 574-579: the new record; a field Notes does not give is null
NewRecord(record_id, attrs) ==
    OverrideRow(record_id,
                IF "Name" \in DOMAIN attrs THEN attrs["Name"] ELSE NaN,
                IF "AlternateNames" \in DOMAIN attrs THEN attrs["AlternateNames"] ELSE NaN)

\* the orders in which a Python set of ids can be iterated (line 551)
Orderings(S) ==
    {p \in SeqsUpTo(S, Cardinality(S)) :
        Len(p) = Cardinality(S) /\ \A i, j \in DOMAIN p : p[i] = p[j] => i = j}

\* add_new_records (lines 517-592)
AddNewRecords ==
    /\ ov_pc = "add"
    /\ \E order \in Orderings(Addable(ov_df, ov_overrides)) :
           ov_df' = ov_df \o
               [n \in DOMAIN order |->
                   NewRecord(order[n],
                             ov_overrides[FirstOverrideOf(ov_overrides, order[n])].Notes.attrs)]
    /\ ov_inserted' = {FirstOverrideOf(ov_overrides, id) :
                          id \in Addable(ov_df, ov_overrides)}
    /\ ov_pc' = "update"
    /\ UNCHANGED <<ov_input, ov_overrides, ov_updated, ledgerVars, applyVars,
                   verifiedVars, manualVars, mainVars, genVars, idVars, resolveVars,
                   nameVars, fixVars>>

\* lines 357-369 on the rows of record_mask
UpdateFields(df, record_mask, attrs) ==
    LET current_value == df[SetMin(record_mask)].AlternateNames
        new_value == IF isna(current_value) \/ current_value = <<>>
                     THEN attrs["AlternateNames"]
                     ELSE current_value \o <<";", " ">> \o attrs["AlternateNames"]
    IN  [r \in DOMAIN df |->
            IF r \notin record_mask THEN df[r]
            ELSE [df[r] EXCEPT
                     !.AlternateNames = IF "AlternateNames" \in DOMAIN attrs
                                        THEN new_value ELSE @,
                     !.Name = IF "Name" \in DOMAIN attrs THEN attrs["Name"] ELSE @]]

\* lines 338-378 for the override rows from position i on: <<table, rows
\* counted in successful_updates>>
RECURSIVE SingleUpdates(_, _, _, _)
SingleUpdates(df, overrides, i, done) ==
    IF i > Len(overrides) THEN <<df, done>>
    ELSE LET record_mask == MaskOf(df, overrides[i].PrimaryRecordID)
         IN  IF overrides[i].SecondaryRecordID # NoneID \/ record_mask = {}
                \/ overrides[i].Notes.kind = "invalid"
             THEN SingleUpdates(df, overrides, i + 1, done)
             ELSE IF overrides[i].Notes.kind = "nan"
             THEN SingleUpdates(df, overrides, i + 1, done \cup {i})
             ELSE SingleUpdates(UpdateFields(df, record_mask, overrides[i].Notes.attrs),
                                overrides, i + 1, done \cup {i})

\* apply_single_record_updates (lines 308-380)
ApplySingleRecordUpdates ==
    /\ ov_pc = "update"
    /\ ov_df' = SingleUpdates(ov_df, ov_overrides, 1, {})[1]
    /\ ov_updated' = SingleUpdates(ov_df, ov_overrides, 1, {})[2]
    /\ ov_pc' = "merge"
    /\ UNCHANGED <<ov_input, ov_overrides, ov_inserted, ledgerVars, applyVars,
                   verifiedVars, manualVars, mainVars, genVars, idVars, resolveVars,
                   nameVars, fixVars>>

NextOverride ==
    \/ AddNewRecords
    \/ ApplySingleRecordUpdates

V_DOE == <<"D", "O", "E">>

OverrideTables ==
    {t \in SeqsUpTo({OverrideRow("FINAL_REC_000001", N_doe, NaN),
                     OverrideRow("FINAL_REC_000002", N_dot, V_DOE)}, MaxOverrideRows) :
        /\ Len(t) >= 1
        /\ \A i, j \in DOMAIN t : i < j => t[i].RecordID # t[j].RecordID}

SingleOverride(p, sec, notes) ==
    [PrimaryRecordID |-> p, SecondaryRecordID |-> sec, Notes |-> notes]

SingleOverridePool ==
    {SingleOverride(p, sec, notes) :
        p \in {"FINAL_REC_000001", "FINAL_REC_000009"},
        sec \in {NoneID, "FINAL_REC_000002"},
        notes \in {NotesNull, NotesInvalid,
                   NotesJson([f \in {"AlternateNames"} |-> V_DOE]),
                   NotesJson([f \in {"Name"} |-> N_ed])}}

InitOverride ==
    /\ ov_input \in OverrideTables
    /\ ov_df = ov_input
    /\ ov_overrides \in SeqsUpTo(SingleOverridePool, MaxSingleOverrides) \ {<<>>}
    /\ ov_pc = "add"
    /\ ov_inserted = {}
    /\ ov_updated = {}
    /\ IdleLedger
    /\ IdleApply
    /\ IdleVerified
    /\ IdleManual
    /\ IdleMain
    /\ IdleGen
    /\ IdleIds
    /\ IdleResolve
    /\ IdleName
    /\ IdleFix

SpecOverride == InitOverride /\ [][NextOverride]_vars

-----------------------------------------------------------------------------
\* C1: after any sequence of ledger insertions starting from a ledger with no
\* duplicate pair, no two entries of the ledger have the same unordered
\* (Source, Target) pair.
C1_NoDuplicateUnorderedPair == ~HasDuplicatePair(ledger)

\* C2 (apply_matches): no record is a side of two merges applied in one pass.
C2_NoRecordMergedTwice ==
    \A i, j \in DOMAIN applied :
        i < j => {applied[i].primary.index, applied[i].secondary.index}
                 \cap {applied[j].primary.index, applied[j].secondary.index} = {}

\* C3: when process_verified_matches returns, final_records equals
\* original_records minus matches_applied.
C3_MergeConservation ==
    vpc = "done" =>
        stats.final_records = stats.original_records - stats.matches_applied

\* C4: the re-run of apply_matches on its own output writes the same table.
C4_RerunChangesNothing ==
    (apply_pc = "done" /\ run = 2) => to_csv(result_df) = out1

\* C5: only ledger entries labelled 'Match' cause a merge.
C5_OnlyConfirmedMerged ==
    \A i \in DOMAIN applied : applied[i].Label = "Match"

\* C6: a merge never removes the row that is its own primary.
C6_NoSelfRemoval ==
    \A i \in DOMAIN applied : applied[i].primary.index # applied[i].secondary.index

\* C7: after a merge the survivor's merged_from holds the secondary's id and
\* every id of the secondary's merged_from.
C7_SecondaryHistoryKept ==
    \A i \in DOMAIN applied :
        LET m == applied[i]
        IN ({m.secondary.RecordID} \cup Range(m.secondary.merged_from.ids))
               \subseteq Range(m.merged.merged_from.ids)

SurvivingPrimaries ==
    {i \in DOMAIN result_df :
        \E j \in DOMAIN applied : applied[j].primary.index = result_df[i].index}

RECURSIVE IsSubsequence(_, _)
IsSubsequence(a, b) ==
    IF a = <<>> THEN TRUE
    ELSE IF b = <<>> THEN FALSE
    ELSE IF Head(a) = Head(b) THEN IsSubsequence(Tail(a), Tail(b))
    ELSE IsSubsequence(a, Tail(b))

\* C9: merged_from is append-only: the ids the primary's merged_from held
\* before a merge are still in the survivor's merged_from, in the same order.
C9_MergedFromAppendOnly ==
    \A i \in DOMAIN applied :
        IsSubsequence(applied[i].primary.merged_from.ids,
                      applied[i].merged.merged_from.ids)

\* null, empty or whitespace-only
IsBlank(v) == isna(v) \/ strip(v) = <<>>

\* C10: in every merge and for every field, a blank primary value and a
\* non-blank secondary value give the secondary's value in the merged record.
C10_BlankFilledFromSecondary ==
    \A i \in DOMAIN applied : \A f \in TextColumns :
        (IsBlank(applied[i].primary[f]) /\ ~IsBlank(applied[i].secondary[f]))
            => applied[i].merged[f] = applied[i].secondary[f]

\* C6 for apply_manual_merges: an override row never removes its own primary.
C6_ManualNoSelfRemoval ==
    \A i \in DOMAIN mapplied :
        mapplied[i].primary.RecordID # mapplied[i].secondary.RecordID

\* C10 for phase2.6 merge_records.
C10_ManualBlankFilled ==
    \A i \in DOMAIN mapplied :
        \A f \in {"Name", "Acronym", "AlternateAcronyms", "URL"} :
            (IsBlank(mapplied[i].primary[f]) /\ ~IsBlank(mapplied[i].secondary[f]))
                => mapplied[i].merged[f] = mapplied[i].secondary[f]

\* C11: a ledger entry naming a record that was merged away earlier in the
\* same pass of process_verified_matches is skipped: no queued merge has, as
\* either side, the record an earlier queued merge of the pass removed.
C11_MergedAwayIsSkipped ==
    \A i, j \in DOMAIN vapplied :
        i < j => vapplied[i].secondary.RecordID
                     \notin {vapplied[j].primary.RecordID,
                             vapplied[j].secondary.RecordID}

\* C11, the part that holds: an entry whose id is missing or in no row
\* (process_verified_matches), or whose names select no row (apply_matches),
\* leaves the table as it is and hands over to the next entry.
C11_SkipLeavesTable ==
    [][/\ (VSkipMissingID \/ VSkipNotFound)
            => (verified_df' = verified_df /\ k' = k + 1 /\ batch' = batch)
       /\ SkipNotFound => (result_df' = result_df /\ mi' = mi + 1)]_vars

\* the source of a record before final_cleanup dropped the column
Origin(rid) ==
    RowPool[CHOOSE i \in DOMAIN RowPool : RowPool[i].RecordID = rid].source

\* C12: when apply_matches, run by main after final_cleanup, merges two
\* records of different sources, the survivor is the one of the
\* higher-priority source (nyc_agencies_export > ops > nyc_gov).
C12_HigherPrioritySurvives ==
    \A i \in DOMAIN applied :
        LET p == Origin(applied[i].primary.RecordID)
            q == Origin(applied[i].secondary.RecordID)
        IN (notna(p) /\ notna(q) /\ p # q)
               => SourcePriority(p) > SourcePriority(q)

\* C20: a run of main that raises has written nothing at final_path.
C20_NoOutputWhenRaised ==
    main_pc = "raised" => ~final_path.exists

\* the two rows apply_matches selects for the entry it is about to process
SelectedPair ==
    LET sel == Selection(result_df, matches[mi])
    IN <<result_df[FirstRecord(result_df, sel.source_records)],
         result_df[FirstRecord(result_df, sel.target_records)]>>

\* the entry about to be processed selects two rows that both hold a
\* "Name - Ops", or both a "Name - HOO", and are not both libraries
SameFieldCase ==
    /\ InLoop
    /\ notna(matches[mi].Source) /\ notna(matches[mi].Target)
    /\ LET sel == Selection(result_df, matches[mi])
       IN sel.source_records # {} /\ sel.target_records # {}
    /\ LET s == SelectedPair[1]
           t == SelectedPair[2]
       IN /\ \/ notna(s.NameOps) /\ notna(t.NameOps)
             \/ notna(s.NameHOO) /\ notna(t.NameHOO)
          /\ ~(is_library(s) /\ is_library(t))

C14_NoExistingPairEmitted ==
    \A i \in DOMAIN emitted :
        /\ <<emitted[i].Source, emitted[i].Target>> \notin existing_pairs
        /\ <<emitted[i].Target, emitted[i].Source>> \notin existing_pairs

\* C15: a run of generate_matches.main on the ledger an earlier run of main
\* left, with the same table and matcher, leaves the ledger as it is.
C15_RerunKeepsLedger ==
    [][nOps >= 1 => (ledger' = ledger /\ ledgerExists' = ledgerExists)]_vars

\* C15 witness: two runs have ended and the first one added entries
C15_SecondRunAfterSave ==
    nOps = 2 /\ ledgerExists /\ Len(ledger) >= 2

\* C16: every emitted match has an emitted Score of at least 82.0, and the
\* Label 'Match' exactly when the emitted Score is at least 95.0, else ''.
C16_ScoreAndLabel ==
    \A i \in DOMAIN emitted :
        /\ emitted[i].Score >= 820
        /\ emitted[i].Label = (IF emitted[i].Score >= 950 THEN "Match" ELSE "")

NoDuplicateIds(ids) == \A i, j \in DOMAIN ids : ids[i] = ids[j] => i = j

\* C17: after ensure_record_ids returns, no two records share a RecordID and
\* every RecordID matches ^[A-Z]+_\d{6}$.
C17_EnsuredIdsUniqueAndValid ==
    id_pc = "ensured" =>
        /\ NoDuplicateIds(id_df)
        /\ \A i \in DOMAIN id_df : MatchesPattern(id_df[i])

\* C18: ensure_record_ids leaves unchanged every RecordID that matched the
\* pattern in the input table and was held by exactly one record there.
C18_ValidUniqueIdKept ==
    (id_pc = "ensured" /\ id_input.has_RecordID) =>
        \A i \in DOMAIN id_df :
            (/\ MatchesPattern(id_input.RecordID[i])
             /\ \A j \in DOMAIN id_df : id_input.RecordID[j] = id_input.RecordID[i] => j = i)
            => id_df[i] = id_input.RecordID[i]

\* C19: after assign_final_ids returns, every RecordID is FINAL_REC_ followed
\* by six digits and no two records share a RecordID.
C19_FinalIdsUniqueAndValid ==
    id_pc = "assigned" =>
        /\ NoDuplicateIds(id_df)
        /\ \A i \in DOMAIN id_df : has_valid_id(id_df[i], FINAL_REC_)

\* C21: once a ledger entry's Label is 'Match' or 'NonMatch', no ledger
\* operation (update_consolidated_matches, save_matches, add_manual_matches)
\* changes the Label of the entry with that Source and Target.
C21_DecidedLabelIsKept ==
    [][\A i \in DOMAIN ledger :
          ledger[i].Label \in {"Match", "NonMatch"} =>
              \A j \in DOMAIN ledger' :
                  (ledger'[j].Source = ledger[i].Source
                   /\ ledger'[j].Target = ledger[i].Target)
                  => ledger'[j].Label = ledger[i].Label]_vars

\* C29: consolidate_library_matches never makes an entry's SourceID equal to
\* its TargetID when the two were not equal on input.
C29_IdsStayDistinct ==
    [][ledgerOp' = "consolidate_library_matches" =>
          \A i \in DOMAIN ledger :
              ledger[i].SourceID # ledger[i].TargetID
              => ledger'[i].SourceID # ledger'[i].TargetID]_vars

\* the non-null, non-blank candidate values, ignoring case and surrounding
\* whitespace
PopulatedValues(row, cols) ==
    {lower(strip(row[cols[i]])) :
        i \in {j \in DOMAIN cols : notna(row[cols[j]]) /\ strip(row[cols[j]]) # <<>>}}

\* C22: resolve_conflict returns status 'match' exactly when the non-null,
\* non-blank candidate values are all equal ignoring case and surrounding
\* whitespace, and a status beginning 'conflict:' otherwise.
C22_StatusIsMatchIffEqual ==
    cr_pc = "returned" =>
        cr_result.status.kind =
            (IF Cardinality(PopulatedValues(cr_row, cr_candidate_cols)) <= 1
             THEN "match" ELSE "conflict")

\* the stripped value of the first column of the order that is populated
FirstPopulated(row, cols) ==
    LET populated == {j \in DOMAIN cols : notna(row[cols[j]]) /\ strip(row[cols[j]]) # <<>>}
    IN  IF populated = {} THEN <<>>
        ELSE strip(row[cols[CHOOSE j \in populated : \A h \in populated : j <= h]])

\* C23: the suggested value resolve_conflict returns is the first non-blank
\* value among the columns of priority_order, taken in that order.
C23_SuggestedFollowsPriority ==
    cr_pc = "returned" =>
        cr_result.suggested = FirstPopulated(cr_row, cr_priority_order)

\* C24: standardize_name(standardize_name(s)) = standardize_name(s): a second
\* call returns its argument.
C24_StandardizeIdempotent ==
    sn_calls >= 2 => sn_name = sn_prev

\* C25: for every entry labelled 'Match' and each side whose id is missing
\* (both sides included), fix_match_ids sets the id to name_to_id's value
\* for the side's normalized name whenever that name is a key.
C25_MissingIdResolvedByName ==
    fm_pc = "returned" =>
        \A i \in DOMAIN fm_matches_df :
            fm_matches_df[i].Label = "Match" =>
                /\ (fm_matches_df[i].SourceID = NoneID
                    /\ normalize_name(fm_matches_df[i].Source) \in Keys(fm_name_to_id))
                   => fm_result[i].SourceID =
                          Lookup(fm_name_to_id, normalize_name(fm_matches_df[i].Source))
                /\ (fm_matches_df[i].TargetID = NoneID
                    /\ normalize_name(fm_matches_df[i].Target) \in Keys(fm_name_to_id))
                   => fm_result[i].TargetID =
                          Lookup(fm_name_to_id, normalize_name(fm_matches_df[i].Target))

\* C26: for every match emitted by generate_potential_matches, SourceID and
\* TargetID are RecordIDs of the input table, and the record with that
\* RecordID has an 'Agency Name' equal to the match's Source (Target).
C26_IdsPointAtNamedRecords ==
    \A i \in DOMAIN emitted :
        /\ \E r \in DOMAIN GenTable :
               /\ GenTable[r].RecordID = emitted[i].SourceID
               /\ GenTable[r].AgencyName = emitted[i].Source
        /\ \E r \in DOMAIN GenTable :
               /\ GenTable[r].RecordID = emitted[i].TargetID
               /\ GenTable[r].AgencyName = emitted[i].Target

\* C27: within a batch of process_verified_matches no record is both the
\* surviving (updated) record of one applied match and the removed record
\* of another, so every merged record the batch writes survives its
\* removals.
C27_SurvivorNotRemovedInBatch ==
    {batch.batch_updates[i][1] : i \in DOMAIN batch.batch_updates}
        \cap Range(batch.indices_to_drop) = {}

\* C28: in one run of phase2.6 main every override row with a blank
\* SecondaryRecordID is applied exactly once: as an insertion when its
\* PrimaryRecordID is absent from the input table, as a field update when
\* it is present, and never as both.  Rows whose Notes are missing or are
\* not JSON carry no instruction and are left out.
C28_SingleRowAppliedOnce ==
    ov_pc = "merge" =>
        \A i \in BlankSecondary(ov_overrides) :
            ov_overrides[i].Notes.kind = "json" =>
            IF MaskOf(ov_input, ov_overrides[i].PrimaryRecordID) = {}
            THEN i \in ov_inserted /\ i \notin ov_updated
            ELSE i \in ov_updated /\ i \notin ov_inserted

\* C30: when a run of main finds no new match and a ledger file exists,
\* save_matches returns without raising and the ledger keeps its entries.
C30_EmptySaveReturns ==
    [][(gen_pc = "main" /\ ledgerExists /\ MainMatches = <<>>) =>
           (ledgerOp' = "save_matches" /\ ledger' = ledger)]_vars

=============================================================================
